---- MODULE Spec2Model ----
(***************************************************************************)
(* Verification model of the mini project management backend:             *)
(*   - core/dataloaders.py      request-scoped batch loaders               *)
(*   - core/query_complexity.py query cost / depth analysis                *)
(*   - core/managers.py         organization-scoped model managers         *)
(*   - mini_project_management/schema.py  schema wiring and resolvers      *)
(***************************************************************************)
EXTENDS Integers, Sequences, FiniteSets, TLC

(***************************************************************************)
(* Bounds of the model.                                                    *)
(***************************************************************************)
MaxRequests == 2       \* concurrent GraphQL requests (info.context objects)
MaxKey      == 3       \* loader keys are drawn from 1..MaxKey
MaxLoads    == 2       \* load() calls explored in one behaviour
MaxBatch    == 2       \* keys in a directly applied bulk fetch
MaxChanges  == 1       \* model changes (saves and deletes) / mutations in one behaviour
MaxNodes    == 2       \* selection nodes in a generated document
MaxScenarioLoads == 4  \* load() calls on the loader of the grouped-tasks scenario
MaxClears   == 1       \* clear_all() calls on one DataLoaderContext
MaxNested   == 3       \* nested fields resolved through the loaders in one behaviour

Requests   == 1..MaxRequests
Keys       == 1..MaxKey
ContextIds == 1..(MaxRequests + 1)

NoAttr == 0            \* info.context has no 'dataloaders' attribute
NoOrg  == 0            \* get_current_organization() is None

(***************************************************************************)
(* Python values delivered by the loaders.                                 *)
(***************************************************************************)
PyNone      == [kind |-> "None", id |-> 0, items |-> << >>]
PyObj(i)    == [kind |-> "obj",  id |-> i, items |-> << >>]
PyList(ids) == [kind |-> "list", id |-> 0, items |-> ids]

VARIABLES
    organizations,         \* Organization table: set of [id]
    projects,              \* Project table: set of [id, organization_id, created_at]
    tasks,                 \* Task table: set of [id, project_id, created_at]
    comments,              \* TaskComment table: set of [id, task_id, created_at]
    current_organization,  \* threading.current_thread().organization
    dataloaders,           \* request -> DataLoaderContext id held in info.context.dataloaders
    next_ctx,              \* identity of the next DataLoaderContext object constructed
    loaders,               \* context id -> loader name -> DataLoader state
    returned,              \* history: request -> contexts get_dataloaders(info) has returned
    nloads,                \* number of load() calls so far
    fetches,               \* the last batch_load_fn applied directly to a key list
    settings,              \* django settings GRAPHQL_MAX_COMPLEXITY / GRAPHQL_MAX_DEPTH
    analyzer,              \* max_complexity / max_depth of the QueryComplexityAnalyzer in use
    doc,                   \* document handed to the schema / the validation rule
    phase,                 \* position of the request in schema.execute
    errors,                \* errors reported by validation
    analysis_failed,       \* the cost analysis raised and was logged
    resolved,              \* number of field resolvers that have run
    variables,             \* variable values supplied with the document
    result,                \* what calculate_complexity returned last
    cache,                 \* django.core.cache.cache: key -> entry
    done,                  \* ids of the tasks whose status is DONE
    last,                  \* history: the last statistics query or model change
    touched,               \* history: ids of the projects whose tasks have changed
    nchanges,              \* number of model changes so far
    payload,               \* what the last task mutation returned
    request,               \* the HTTP request the thread is handling
    inflight,              \* the position of a statistics query running beside a mutation
    response,              \* the objects placed in the response of the query being executed
    info_context           \* info.context of the operation being executed

storeVars  == << organizations, projects, tasks, comments, current_organization >>
loaderVars == << dataloaders, next_ctx, loaders, returned, nloads >>
costVars   == << settings, analyzer, doc, phase, errors, analysis_failed, resolved,
                variables, result >>
statsVars  == << cache, done, last, touched, nchanges >>
webVars    == << payload, request, inflight, response, info_context >>
vars       == << storeVars, loaderVars, fetches, costVars, statsVars, webVars >>


(***************************************************************************)
(* Persistence layer: tables, default ordering and scoped managers.        *)
(***************************************************************************)
LoaderNames == { "organization_loader", "project_loader",
                 "projects_by_organization_loader", "task_loader",
                 "tasks_by_project_loader", "comment_loader",
                 "comments_by_task_loader" }

GroupingLoaders == { "projects_by_organization_loader",
                     "tasks_by_project_loader", "comments_by_task_loader" }

Causes == { "OperationalError", "DatabaseError" }

\* The rows of S with the smallest / largest created_at come first.
RECURSIVE OrderByCreatedAt(_, _)
OrderByCreatedAt(S, descending) ==
    IF S = {} THEN << >>
    ELSE LET first == CHOOSE x \in S :
                        \A y \in S : IF descending
                                     THEN x.created_at >= y.created_at
                                     ELSE x.created_at <= y.created_at
         IN  << first >> \o OrderByCreatedAt(S \ {first}, descending)

\* OrganizationScopedManager.get_queryset for each model that uses it.
Project_objects ==
    IF current_organization # NoOrg
    THEN { p \in projects : p.organization_id = current_organization }
    ELSE projects

Task_objects ==
    IF current_organization # NoOrg
    THEN { t \in tasks : \E p \in projects :
              /\ p.id = t.project_id
              /\ p.organization_id = current_organization }
    ELSE tasks

TaskComment_objects ==
    IF current_organization # NoOrg
    THEN { c \in comments : \E t \in tasks : \E p \in projects :
              /\ t.id = c.task_id
              /\ p.id = t.project_id
              /\ p.organization_id = current_organization }
    ELSE comments

\* Seq of ids -> set of ids (the id__in filter)
KeySet(keys) == { keys[i] : i \in DOMAIN keys }

Ids(rows) == [ i \in DOMAIN rows |-> rows[i].id ]

\* dict.get(key) over {row.id: row for row in rows}
MapGet(rows, key) ==
    IF \E x \in rows : x.id = key
    THEN PyObj((CHOOSE x \in rows : x.id = key).id)
    ELSE PyNone

(***************************************************************************)
(* core/dataloaders.py: the seven batch_load_fn methods.                   *)
(***************************************************************************)
OrganizationDataLoader_batch_load_fn(organization_ids) ==
    LET orgs == { o \in organizations : o.id \in KeySet(organization_ids) }
    IN  [ i \in DOMAIN organization_ids |-> MapGet(orgs, organization_ids[i]) ]

ProjectDataLoader_batch_load_fn(project_ids) ==
    LET rows == { p \in Project_objects : p.id \in KeySet(project_ids) }
    IN  [ i \in DOMAIN project_ids |-> MapGet(rows, project_ids[i]) ]

\* Variant: projects_by_org.get(org_id) without the [] default.
ProjectsByOrganizationDataLoader_batch_load_fn_no_default(organization_ids) ==
    LET rows == OrderByCreatedAt(
                  { p \in Project_objects :
                        p.organization_id \in KeySet(organization_ids) }, TRUE)
        projects_by_org(org_id) ==
            SelectSeq(rows, LAMBDA p : p.organization_id = org_id)
    IN  [ i \in DOMAIN organization_ids |->
            IF projects_by_org(organization_ids[i]) = << >>
            THEN PyNone
            ELSE PyList(Ids(projects_by_org(organization_ids[i]))) ]

ProjectsByOrganizationDataLoader_batch_load_fn(organization_ids) ==
    LET rows == OrderByCreatedAt(
                  { p \in Project_objects :
                        p.organization_id \in KeySet(organization_ids) }, TRUE)
        projects_by_org(org_id) ==
            SelectSeq(rows, LAMBDA p : p.organization_id = org_id)
    IN  [ i \in DOMAIN organization_ids |->
            PyList(Ids(projects_by_org(organization_ids[i]))) ]

TaskDataLoader_batch_load_fn(task_ids) ==
    LET rows == { t \in Task_objects : t.id \in KeySet(task_ids) }
    IN  [ i \in DOMAIN task_ids |-> MapGet(rows, task_ids[i]) ]

\* Variant: tasks filed under task.id instead of task.project_id.
TasksByProjectDataLoader_batch_load_fn_by_task_id(project_ids) ==
    LET rows == OrderByCreatedAt(
                  { t \in Task_objects :
                        t.project_id \in KeySet(project_ids) }, TRUE)
        tasks_by_project(project_id) ==
            SelectSeq(rows, LAMBDA t : t.id = project_id)
    IN  [ i \in DOMAIN project_ids |->
            PyList(Ids(tasks_by_project(project_ids[i]))) ]

\* Variant: tasks_by_project[task.project_id] = [task] keeps one task per key.
TasksByProjectDataLoader_batch_load_fn_overwriting(project_ids) ==
    LET rows == OrderByCreatedAt(
                  { t \in Task_objects :
                        t.project_id \in KeySet(project_ids) }, TRUE)
        tasks_by_project(project_id) ==
            SelectSeq(rows, LAMBDA t : t.project_id = project_id)
    IN  [ i \in DOMAIN project_ids |->
            PyList(Ids(SubSeq(tasks_by_project(project_ids[i]),
                              Len(tasks_by_project(project_ids[i])),
                              Len(tasks_by_project(project_ids[i]))))) ]

TasksByProjectDataLoader_batch_load_fn(project_ids) ==
    LET rows == OrderByCreatedAt(
                  { t \in Task_objects :
                        t.project_id \in KeySet(project_ids) }, TRUE)
        tasks_by_project(project_id) ==
            SelectSeq(rows, LAMBDA t : t.project_id = project_id)
    IN  [ i \in DOMAIN project_ids |->
            PyList(Ids(tasks_by_project(project_ids[i]))) ]

TaskCommentDataLoader_batch_load_fn(comment_ids) ==
    LET rows == { c \in TaskComment_objects : c.id \in KeySet(comment_ids) }
    IN  [ i \in DOMAIN comment_ids |-> MapGet(rows, comment_ids[i]) ]

\* Variant: the comments are fetched newest first.
CommentsByTaskDataLoader_batch_load_fn_newest_first(task_ids) ==
    LET rows == OrderByCreatedAt(
                  { c \in TaskComment_objects :
                        c.task_id \in KeySet(task_ids) }, TRUE)
        comments_by_task(task_id) ==
            SelectSeq(rows, LAMBDA c : c.task_id = task_id)
    IN  [ i \in DOMAIN task_ids |->
            PyList(Ids(comments_by_task(task_ids[i]))) ]

CommentsByTaskDataLoader_batch_load_fn(task_ids) ==
    LET rows == OrderByCreatedAt(
                  { c \in TaskComment_objects :
                        c.task_id \in KeySet(task_ids) }, FALSE)
        comments_by_task(task_id) ==
            SelectSeq(rows, LAMBDA c : c.task_id = task_id)
    IN  [ i \in DOMAIN task_ids |->
            PyList(Ids(comments_by_task(task_ids[i]))) ]

\* What batch_load_fn hands back when evaluating its queryset raises e: no
\* batch_load_fn has a handler, so the exception leaves the method.
NoValues(l, keys) ==
    [ i \in DOMAIN keys |-> IF l \in GroupingLoaders THEN PyList(<< >>) ELSE PyNone ]

\* Variant: the method catches the exception and answers with empty results.
batch_load_fn_raising_swallowed(l, keys, e) ==
    [ raised |-> FALSE, cause |-> "", values |-> NoValues(l, keys) ]

batch_load_fn_raising(l, keys, e) ==
    [ raised |-> TRUE, cause |-> e, values |-> << >> ]

\* Dispatch of loader.batch_load_fn(keys) on the loader's class.
batch_load_fn(l, keys) ==
    CASE l = "organization_loader" -> OrganizationDataLoader_batch_load_fn(keys)
      [] l = "project_loader" -> ProjectDataLoader_batch_load_fn(keys)
      [] l = "projects_by_organization_loader" ->
             ProjectsByOrganizationDataLoader_batch_load_fn(keys)
      [] l = "task_loader" -> TaskDataLoader_batch_load_fn(keys)
      [] l = "tasks_by_project_loader" -> TasksByProjectDataLoader_batch_load_fn(keys)
      [] l = "comment_loader" -> TaskCommentDataLoader_batch_load_fn(keys)
      [] l = "comments_by_task_loader" -> CommentsByTaskDataLoader_batch_load_fn(keys)

(***************************************************************************)
(* promise.dataloader.DataLoader: load() and the end-of-turn dispatch.     *)
(***************************************************************************)
Pending        == [state |-> "pending",  value |-> PyNone, cause |-> ""]
Fulfilled(v)   == [state |-> "resolved", value |-> v,      cause |-> ""]
Rejected(e)    == [state |-> "rejected", value |-> PyNone, cause |-> e]

\* DataLoader(): a loader built with no arguments batches and memoizes.
\* cache maps a key to the id of its memoized promise (0: no entry); queue
\* holds the loads waiting for the dispatch; promises holds the state of
\* every promise load() has created.  turn, asked and memo record the
\* current scheduling turn, the keys passed to load() during it and the
\* keys memoized when it began; calls and batches are the histories of
\* load() and batch_load_fn invocations; clears holds, for every clear_all(),
\* the number of load() calls made before it.
DataLoader_init ==
    [ cache_enabled |-> TRUE,
      cache |-> [k \in Keys |-> 0], queue |-> << >>, promises |-> << >>,
      turn |-> 1, asked |-> {}, memo |-> {},
      calls |-> << >>, batches |-> << >>, clears |-> << >> ]

\* Variant: the loaders are constructed with cache=False.
DataLoaderContext_init_uncached ==
    [ l \in LoaderNames |-> [DataLoader_init EXCEPT !.cache_enabled = FALSE] ]

\* DataLoaderContext.__init__: one fresh loader per attribute.
DataLoaderContext_init == [ l \in LoaderNames |-> DataLoader_init ]

\* DataLoader.clear_all(): the memoized promises are dropped; the queue and
\* the promises already handed out are left alone.
DataLoader_clear_all(L) ==
    [L EXCEPT !.cache = [k \in Keys |-> 0],
              !.clears = Append(@, Len(L.calls))]

\* Variant: clear_all leaves out comments_by_task_loader.
DataLoaderContext_clear_all_but_comments_by_task(context) ==
    [ l \in LoaderNames |->
        IF l = "comments_by_task_loader" THEN context[l]
        ELSE DataLoader_clear_all(context[l]) ]

\* DataLoaderContext.clear_all(): clear_all() on each of the seven loaders.
DataLoaderContext_clear_all(context) ==
    [ l \in LoaderNames |-> DataLoader_clear_all(context[l]) ]

\* Variant: a new DataLoaderContext on every call.
get_dataloaders_always_new(r) == next_ctx

\* Variant: one module-level DataLoaderContext for every request.
get_dataloaders_module_level(r) == 1

\* get_dataloaders(info): the context id stored on info.context afterwards.
get_dataloaders(r) ==
    IF dataloaders[r] = NoAttr THEN next_ctx ELSE dataloaders[r]

\* DataLoader.load(key) issued by request r: the loader afterwards.
DataLoader_load(L, r, key) ==
    IF L.cache_enabled /\ L.cache[key] # 0
    THEN [L EXCEPT !.asked = @ \cup {key},
                   !.calls = Append(@, [request |-> r, key |-> key,
                                        pid |-> L.cache[key], hit |-> TRUE,
                                        turn |-> L.turn])]
    ELSE LET pid == Len(L.promises) + 1
         IN  [L EXCEPT !.queue = Append(@, [key |-> key, pid |-> pid]),
                       !.promises = Append(@, Pending),
                       !.cache = IF L.cache_enabled
                                 THEN [@ EXCEPT ![key] = pid] ELSE @,
                       !.asked = @ \cup {key},
                       !.calls = Append(@, [request |-> r, key |-> key,
                                            pid |-> pid, hit |-> FALSE,
                                            turn |-> L.turn])]

QueueKeys(L) == [ i \in DOMAIN L.queue |-> L.queue[i].key ]

QueuePids(L) == [ i \in DOMAIN L.queue |-> L.queue[i].pid ]

MemoizedKeys(promise_cache) == { k \in Keys : promise_cache[k] # 0 }

\* fetch_error is the exception the store raised during the fetch ("" when
\* it raised none); outcome, values and cause are what batch_load_fn handed
\* to the loader.
BatchRecord(L, outcome, values, cause, fetch_error) ==
    [ turn |-> L.turn, keys |-> QueueKeys(L), pids |-> QueuePids(L),
      asked |-> L.asked, memo |-> L.memo,
      outcome |-> outcome, values |-> values, cause |-> cause,
      fetch_error |-> fetch_error ]

\* dispatch_queue_batch with a bulk fetch that returned `values`.
DataLoader_resolved(L, values, fetch_error) ==
    [L EXCEPT !.queue = << >>, !.turn = @ + 1, !.asked = {},
              !.memo = MemoizedKeys(L.cache),
              !.promises = [ p \in DOMAIN L.promises |->
                  IF \E i \in DOMAIN L.queue : L.queue[i].pid = p
                  THEN Fulfilled(values[CHOOSE i \in DOMAIN L.queue :
                                             L.queue[i].pid = p])
                  ELSE L.promises[p] ],
              !.batches = Append(@, BatchRecord(L, "returned", values, "",
                                                fetch_error))]

\* failed_dispatch: the bulk fetch raised `e`; every queued key is evicted
\* and every queued promise is rejected with e.
DataLoader_failed(L, e, fetch_error) ==
    LET evicted == { L.queue[i].key : i \in DOMAIN L.queue }
        cache2  == [ k \in Keys |-> IF k \in evicted THEN 0 ELSE L.cache[k] ]
    IN  [L EXCEPT !.queue = << >>, !.turn = @ + 1, !.asked = {},
                  !.cache = cache2,
                  !.memo = MemoizedKeys(cache2),
                  !.promises = [ p \in DOMAIN L.promises |->
                      IF \E i \in DOMAIN L.queue : L.queue[i].pid = p
                      THEN Rejected(e)
                      ELSE L.promises[p] ],
                  !.batches = Append(@, BatchRecord(L, "raised", << >>, e,
                                                    fetch_error))]

(***************************************************************************)
(* django.core.cache and the keys of the statistics entries.               *)
(*                                                                         *)
(* A text is a sequence of decimal digits.  Organization.slug is a unique  *)
(* field: the slug of the organization with id i is written i.             *)
(***************************************************************************)
RECURSIVE int_of(_)
\* int(text)
int_of(text) ==
    IF text = << >> THEN 0
    ELSE 10 * int_of(SubSeq(text, 1, Len(text) - 1)) + text[Len(text)]

RECURSIVE str_of(_)
\* str(n), as an f-string formats an int
str_of(n) == IF n < 10 THEN << n >> ELSE str_of(n \div 10) \o << n % 10 >>

Organization_slug(organization_id) == organization_id

\* The spellings of a project id a query can carry, and the slugs.
IdTexts == { << 1 >>, << 0, 1 >>, << 2 >> }
Slugs   == { 1, 2 }

\* f"project_stats_{project_id}_{organization_slug}" / f"org_stats_{organization_slug}"
project_stats_key(id_text, organization_slug) ==
    [ prefix |-> "project_stats", id |-> id_text, slug |-> organization_slug ]

org_stats_key(organization_slug) ==
    [ prefix |-> "org_stats", id |-> << >>, slug |-> organization_slug ]

CacheKeys ==
    { project_stats_key(t, g) : t \in IdTexts, g \in Slugs }
    \cup { org_stats_key(g) : g \in Slugs }

\* A statistics object, and the None that cache.get gives for a missing key.
Statistics(total_tasks, completed_tasks, total_projects) ==
    [ present |-> TRUE, total_tasks |-> total_tasks,
      completed_tasks |-> completed_tasks, total_projects |-> total_projects ]

Absent ==
    [ present |-> FALSE, total_tasks |-> 0, completed_tasks |-> 0,
      total_projects |-> 0 ]

cache_get(c, key) == c[key]
cache_set(c, key, value) == [ c EXCEPT ![key] = value ]
cache_delete(c, key) == [ c EXCEPT ![key] = Absent ]

NoEvent ==
    [ kind |-> "none", id |-> << >>, project |-> 0, slug |-> 0, fault |-> "none",
      error |-> FALSE, value |-> Absent, had_project_entry |-> FALSE,
      had_org_entry |-> FALSE ]

StatsIdle ==
    /\ cache = [ k \in CacheKeys |-> Absent ]
    /\ done = {}
    /\ last = NoEvent
    /\ touched = {}
    /\ nchanges = 0

\* No mutation has returned, the thread handles no request, no statistics
\* query is under way and no query response is being built.
NoPayload ==
    [ n |-> 0, mutation |-> "none", id |-> 0, slug |-> 0,
      success |-> FALSE, errors |-> << >>, task |-> 0 ]

\* n counts the requests the thread has received and todo lists the hooks
\* still to run for the current one; header is the X-Organization-Slug value
\* (0: no header); organization is request.organization once it is assigned;
\* handled, observed and scoped record the view: whether it ran, the
\* get_current_organization() it saw and the projects its manager yielded;
\* lookup_raises tells that the organization query meets a database error;
\* status is the status of the response (0: none yet), raised tells that
\* process_request of OrganizationContextMiddleware let an exception out, and
\* earlier holds the organizations earlier requests put on the thread.
NoRequest ==
    [ n |-> 0, chain |-> "none", todo |-> << >>, exempt |-> FALSE, header |-> 0,
      organization |-> 0, has_organization |-> FALSE, view_raises |-> FALSE,
      lookup_raises |-> FALSE,
      observed |-> 0, scoped |-> {}, handled |-> FALSE, raised |-> FALSE,
      status |-> 0, earlier |-> {} ]

NoQuery ==
    [ pc |-> "none", id |-> << >>, slug |-> 0, statistics |-> Absent ]

\* has_complexity_analyzed stands for hasattr(info.context,
\* '_complexity_analyzed'); resolves and analyses count the calls of the
\* middleware's resolve and of calculate_complexity made for the context.
NoContext ==
    [ has_complexity_analyzed |-> FALSE, resolves |-> 0, analyses |-> 0,
      logged_failures |-> 0 ]

WebIdle ==
    /\ payload = NoPayload
    /\ request = NoRequest
    /\ inflight = NoQuery
    /\ response = {}
    /\ info_context = NoContext

(***************************************************************************)
(* Loader specification: field resolvers of concurrent requests call       *)
(* get_dataloaders(info).<loader>.load(key); each loader's queue is        *)
(* dispatched when its scheduling turn ends.                               *)
(***************************************************************************)
StoreA ==
    [ organizations |-> { [id |-> 1], [id |-> 2] },
      projects |-> { [id |-> 1, organization_id |-> 1, created_at |-> 1],
                     [id |-> 2, organization_id |-> 2, created_at |-> 2] },
      tasks    |-> { [id |-> 1, project_id |-> 1, created_at |-> 1],
                     [id |-> 2, project_id |-> 1, created_at |-> 2] },
      comments |-> { [id |-> 1, task_id |-> 1, created_at |-> 1],
                     [id |-> 2, task_id |-> 1, created_at |-> 2] } ]

StoreB ==
    [ organizations |-> { [id |-> 1], [id |-> 2] },
      projects |-> { [id |-> 1, organization_id |-> 1, created_at |-> 1],
                     [id |-> 2, organization_id |-> 1, created_at |-> 2] },
      tasks    |-> { [id |-> 1, project_id |-> 1, created_at |-> 1],
                     [id |-> 2, project_id |-> 2, created_at |-> 2] },
      comments |-> { [id |-> 1, task_id |-> 2, created_at |-> 1],
                     [id |-> 2, task_id |-> 1, created_at |-> 2] } ]

InitialStores == { StoreA, StoreB }

StoreInit ==
    /\ \E s \in InitialStores :
         /\ organizations = s.organizations
         /\ projects = s.projects
         /\ tasks = s.tasks
         /\ comments = s.comments
    /\ current_organization \in { NoOrg, 1 }

NoDocument == [ definitions |-> << >> ]

CostIdle ==
    /\ settings = [ GRAPHQL_MAX_COMPLEXITY |-> 1000, GRAPHQL_MAX_DEPTH |-> 10 ]
    /\ analyzer = [ max_complexity |-> 0, max_depth |-> 0 ]
    /\ doc = NoDocument
    /\ phase = "idle"
    /\ errors = << >>
    /\ analysis_failed = FALSE
    /\ resolved = 0
    /\ variables = << >>
    /\ result = [ raised |-> FALSE, complexity |-> 0, depth |-> 0 ]

LoaderIdle ==
    /\ dataloaders = [ r \in Requests |-> NoAttr ]
    /\ next_ctx = 1
    /\ loaders = [ c \in ContextIds |-> DataLoaderContext_init ]
    /\ returned = [ r \in Requests |-> {} ]
    /\ nloads = 0

LoaderInit == StoreInit /\ LoaderIdle /\ fetches = << >> /\ CostIdle /\ StatsIdle /\ WebIdle

\* get_dataloaders(info).<l>.load(key) in request r: what it does to the
\* request's context and to the loader.
LoaderLoad(r, l, key) ==
    /\ key \in Keys
    /\ LET c == get_dataloaders(r)
       IN  /\ c \in ContextIds
           /\ dataloaders' = [dataloaders EXCEPT ![r] = c]
           /\ next_ctx' = IF c = next_ctx THEN next_ctx + 1 ELSE next_ctx
           /\ returned' = [returned EXCEPT ![r] = @ \cup {c}]
           /\ loaders' = [loaders EXCEPT ![c][l] =
                              DataLoader_load(loaders[c][l], r, key)]
    /\ nloads' = nloads + 1

\* get_dataloaders(info).<l>.load(key) in request r.
Load(r, l, key) ==
    /\ LoaderLoad(r, l, key)
    /\ UNCHANGED << storeVars, fetches, costVars, statsVars, webVars >>

\* A resolver of request r runs get_dataloaders(info).<l>.load(key).
ResolverLoad(r, l, key) ==
    /\ nloads < MaxLoads
    /\ Load(r, l, key)

\* ProjectType.resolve_tasks on a project object
resolve_tasks(r, project) ==
    ResolverLoad(r, "tasks_by_project_loader", project.id)

\* TaskType.resolve_comments on a task object
resolve_comments(r, task) ==
    ResolverLoad(r, "comments_by_task_loader", task.id)

\* TaskType.resolve_project on a task object without a prefetched project
resolve_project(r, task) ==
    ResolverLoad(r, "project_loader", task.project_id)

\* The turn of loader l of context c ends and its bulk fetch succeeds.
Dispatch(c, l) ==
    /\ loaders[c][l].queue # << >>
    /\ loaders' = [loaders EXCEPT ![c][l] =
           DataLoader_resolved(loaders[c][l],
                               batch_load_fn(l, QueueKeys(loaders[c][l])), "")]
    /\ UNCHANGED << dataloaders, next_ctx, returned, nloads, storeVars, fetches, costVars, statsVars, webVars >>

\* The turn of loader l of context c ends and the store raises e while
\* batch_load_fn evaluates its queryset.
DispatchFails(c, l, e) ==
    /\ loaders[c][l].queue # << >>
    /\ LET res == batch_load_fn_raising(l, QueueKeys(loaders[c][l]), e)
       IN  loaders' = [loaders EXCEPT ![c][l] =
               IF res.raised
               THEN DataLoader_failed(loaders[c][l], res.cause, e)
               ELSE DataLoader_resolved(loaders[c][l], res.values, e)]
    /\ UNCHANGED << dataloaders, next_ctx, returned, nloads, storeVars, fetches, costVars, statsVars, webVars >>

LoaderNext ==
    \/ \E r \in Requests, p \in projects : resolve_tasks(r, p)
    \/ \E r \in Requests, t \in tasks : resolve_comments(r, t)
    \/ \E r \in Requests, t \in tasks : resolve_project(r, t)
    \/ \E c \in ContextIds, l \in LoaderNames : Dispatch(c, l)
    \/ \E c \in ContextIds, l \in LoaderNames, e \in Causes : DispatchFails(c, l, e)

LoaderSpec == LoaderInit /\ [][LoaderNext]_vars

(***************************************************************************)
(* Bulk-fetch specification: each batch_load_fn applied to key lists.      *)
(***************************************************************************)
KeyLists == UNION { [1..n -> Keys] : n \in 1..MaxBatch }

BatchInit == StoreInit /\ LoaderIdle /\ fetches = << >> /\ CostIdle /\ StatsIdle /\ WebIdle

\* loader.batch_load_fn(keys) of loader attribute l.
BatchLoad(l, keys) ==
    /\ fetches' = << [ loader |-> l, keys |-> keys,
                       values |-> batch_load_fn(l, keys) ] >>
    /\ UNCHANGED << storeVars, loaderVars, costVars, statsVars, webVars >>

BatchNext == \E l \in LoaderNames, keys \in KeyLists : BatchLoad(l, keys)

BatchSpec == BatchInit /\ [][BatchNext]_vars

(***************************************************************************)
(* Grouped-tasks specification: one request loads project keys from its    *)
(* tasks_by_project_loader over a store of three projects holding two, one *)
(* and two tasks.                                                          *)
(***************************************************************************)
ScenarioStore ==
    [ organizations |-> { [id |-> 1], [id |-> 2] },
      projects |-> { [id |-> 1, organization_id |-> 1, created_at |-> 1],
                     [id |-> 2, organization_id |-> 1, created_at |-> 2],
                     [id |-> 3, organization_id |-> 1, created_at |-> 3] },
      tasks    |-> { [id |-> 1, project_id |-> 1, created_at |-> 1],
                     [id |-> 2, project_id |-> 1, created_at |-> 2],
                     [id |-> 3, project_id |-> 2, created_at |-> 3],
                     [id |-> 4, project_id |-> 3, created_at |-> 4],
                     [id |-> 5, project_id |-> 3, created_at |-> 5] },
      comments |-> { [id |-> 1, task_id |-> 1, created_at |-> 1] } ]

ScenarioInit ==
    /\ organizations = ScenarioStore.organizations
    /\ projects = ScenarioStore.projects
    /\ tasks = ScenarioStore.tasks
    /\ comments = ScenarioStore.comments
    /\ current_organization \in { NoOrg, 1 }
    /\ LoaderIdle /\ fetches = << >> /\ CostIdle /\ StatsIdle /\ WebIdle

\* dataloaders.tasks_by_project_loader.load(key) in request 1
ScenarioLoad(key) ==
    /\ nloads < MaxScenarioLoads
    /\ Load(1, "tasks_by_project_loader", key)

ScenarioNext ==
    \/ \E key \in Keys : ScenarioLoad(key)
    \/ \E c \in ContextIds : Dispatch(c, "tasks_by_project_loader")

ScenarioSpec == ScenarioInit /\ [][ScenarioNext]_vars

(***************************************************************************)
(* Clearing specification: one request loads keys from any of its seven    *)
(* loaders, the loaders dispatch, and clear_all() is called on the         *)
(* request's DataLoaderContext at any moment.                              *)
(***************************************************************************)
\* The ids a resolver can pass to loader l: ids of the rows of the table
\* the loader is keyed by.
LoadableKeys(l) ==
    CASE l \in { "organization_loader", "projects_by_organization_loader" } ->
             { o.id : o \in organizations }
      [] l \in { "project_loader", "tasks_by_project_loader" } ->
             { x.id : x \in projects }
      [] l \in { "task_loader", "comments_by_task_loader" } ->
             { t.id : t \in tasks }
      [] l = "comment_loader" -> { x.id : x \in comments }

ClearInit ==
    /\ organizations = StoreA.organizations
    /\ projects = StoreA.projects
    /\ tasks = StoreA.tasks
    /\ comments = StoreA.comments
    /\ current_organization = NoOrg
    /\ LoaderIdle /\ fetches = << >> /\ CostIdle /\ StatsIdle /\ WebIdle

\* get_dataloaders(info).<l>.load(key) in request 1
ClearLoad(l, key) ==
    /\ nloads < MaxLoads
    /\ Load(1, l, key)

\* context.clear_all() on a context that has been constructed
ClearAll(c) ==
    /\ c < next_ctx
    /\ Len(loaders[c]["organization_loader"].clears) < MaxClears
    /\ loaders' = [loaders EXCEPT ![c] = DataLoaderContext_clear_all(loaders[c])]
    /\ UNCHANGED << dataloaders, next_ctx, returned, nloads, storeVars, fetches,
                    costVars, statsVars, webVars >>

ClearNext ==
    \/ \E l \in LoaderNames : \E key \in LoadableKeys(l) : ClearLoad(l, key)
    \/ \E c \in ContextIds, l \in LoaderNames : Dispatch(c, l)
    \/ \E c \in ContextIds : ClearAll(c)

ClearSpec == ClearInit /\ [][ClearNext]_vars

(***************************************************************************)
(* core/query_complexity.py: documents.                                    *)
(*                                                                         *)
(* A selection is a FieldNode, an InlineFragmentNode or a                  *)
(* FragmentSpreadNode; a FragmentSpreadNode has no selection_set           *)
(* attribute.  A definition is an operation or a fragment definition; both *)
(* have a selection_set.  A field whose name attribute is None stands for  *)
(* a malformed node: reading name.value raises.                            *)
(***************************************************************************)
NoName == "<None>"

FieldNode(name, arguments, selections) ==
    [ kind |-> "Field", name |-> name, arguments |-> arguments,
      selection_set |-> selections ]

InlineFragmentNode(selections) ==
    [ kind |-> "InlineFragment", name |-> "", arguments |-> << >>,
      selection_set |-> selections ]

FragmentSpreadNode(name) ==
    [ kind |-> "FragmentSpread", name |-> name, arguments |-> << >>,
      selection_set |-> << >> ]

\* An argument value node: a literal carries .value, a variable reference
\* carries .name.  The .value of an IntValueNode is the token text, a str.
IntValueNode(n) == [ kind |-> "IntValue", pytype |-> "str", value |-> n, name |-> "" ]
StringValueNode(n) == [ kind |-> "StringValue", pytype |-> "str", value |-> n, name |-> "" ]
VariableNode(name)      == [ kind |-> "Variable", pytype |-> "", value |-> 0, name |-> name ]

ArgumentNode(name, value) == [ name |-> name, value |-> value ]

\* A Python value handed back by _get_argument_value
PyValue(pytype, n) == [ pytype |-> pytype, value |-> n ]

(***************************************************************************)
(* QueryComplexityAnalyzer.  Complexities are kept in units of 1/Scale so  *)
(* that the products of min(n, 100) / 10 and 1.2 are exact.                *)
(***************************************************************************)
Scale == 100

Min(a, b) == IF a < b THEN a ELSE b
Max(a, b) == IF a > b THEN a ELSE b

\* QueryComplexityAnalyzer.__init__: an argument that is None (or 0) falls
\* back to the django setting.
QueryComplexityAnalyzer_init(max_complexity, max_depth) ==
    [ max_complexity |-> IF max_complexity # 0 THEN max_complexity
                         ELSE settings.GRAPHQL_MAX_COMPLEXITY,
      max_depth      |-> IF max_depth # 0 THEN max_depth
                         ELSE settings.GRAPHQL_MAX_DEPTH ]

get_field_complexity(field_name) ==
    CASE field_name \in { "id", "name", "title", "description", "status",
                          "email", "createdAt", "updatedAt", "dueDate" } -> 1
      [] field_name \in { "organization", "project", "task" } -> 2
      [] field_name \in { "projects", "tasks" } -> 5
      [] field_name = "comments" -> 3
      [] field_name = "statistics" -> 10
      [] field_name \in { "taskCount", "completedTaskCount",
                          "completionPercentage" } -> 5
      [] field_name = "isOverdue" -> 3
      [] field_name = "isAssigned" -> 2
      [] field_name = "commentCount" -> 3
      [] field_name = "projectStatistics" -> 15
      [] field_name = "organizationStatistics" -> 20
      [] field_name = "taskStatusBreakdown" -> 10
      [] OTHER -> 2

\* vars_in maps the names of the supplied variables to Python values.
get_argument_value(argument, vars_in) ==
    IF argument.value.kind # "Variable"
    THEN PyValue(argument.value.pytype, argument.value.value)
    ELSE IF argument.value.name \in DOMAIN vars_in
         THEN vars_in[argument.value.name]
         ELSE PyValue("NoneType", 0)

\* The multiplier, in units of 1/Scale.
RECURSIVE argument_multiplier_from(_, _, _, _)
argument_multiplier_from(arguments, vars_in, i, multiplier) ==
    IF i > Len(arguments) THEN multiplier
    ELSE LET arg_name == arguments[i].name
             value    == get_argument_value(arguments[i], vars_in)
             next     == IF arg_name \in { "first", "last", "limit" }
                         THEN IF value.pytype = "int"
                              THEN (multiplier * Min(value.value, 100)) \div 10
                              ELSE multiplier
                         ELSE IF arg_name \in { "filter", "where", "organizationSlug" }
                              THEN (multiplier * 12) \div 10
                              ELSE multiplier
         IN  argument_multiplier_from(arguments, vars_in, i + 1, next)

\* Variant: the product is returned without the lower bound.
calculate_argument_multiplier_unfloored(arguments, vars_in) ==
    argument_multiplier_from(arguments, vars_in, 1, Scale)

calculate_argument_multiplier(arguments, vars_in) ==
    Max(argument_multiplier_from(arguments, vars_in, 1, Scale), Scale)

\* Result of an analysis step: it raised, or a (complexity, depth) pair.
Raised        == [ raised |-> TRUE,  complexity |-> 0, depth |-> 0 ]
Pair(c, d)    == [ raised |-> FALSE, complexity |-> c, depth |-> d ]

RECURSIVE analyze_selection_set_from(_, _, _, _, _)
RECURSIVE analyze_field(_, _, _)

analyze_selection_set_from(selections, vars_in, current_depth, i, acc) ==
    IF i > Len(selections) THEN acc
    ELSE LET selection == selections[i]
             sub == IF selection.kind = "Field"
                    THEN analyze_field(selection, vars_in, current_depth + 1)
                    ELSE IF selection.kind = "InlineFragment"
                         THEN analyze_selection_set_from(
                                  selection.selection_set, vars_in,
                                  current_depth, 1, Pair(0, current_depth))
                         ELSE Pair(0, current_depth)
         IN  IF sub.raised THEN Raised
             ELSE analyze_selection_set_from(
                      selections, vars_in, current_depth, i + 1,
                      Pair(acc.complexity + sub.complexity,
                           Max(acc.depth, sub.depth)))

analyze_selection_set(selections, vars_in, current_depth) ==
    analyze_selection_set_from(selections, vars_in, current_depth, 1,
                               Pair(0, current_depth))

\* Variant: the nested selections add depth but no cost.
analyze_field_own_cost_only(field_node, vars_in, current_depth) ==
    IF field_node.name = NoName THEN Raised
    ELSE LET base == get_field_complexity(field_node.name)
             own  == IF field_node.arguments # << >>
                     THEN base * calculate_argument_multiplier(
                                     field_node.arguments, vars_in)
                     ELSE base * Scale
         IN  IF field_node.selection_set # << >>
             THEN LET nested == analyze_selection_set(
                                    field_node.selection_set, vars_in,
                                    current_depth)
                  IN  IF nested.raised THEN Raised
                      ELSE Pair(own, Max(current_depth, nested.depth))
             ELSE Pair(own, current_depth)

\* Variant: the nested selections start one level deeper than the field.
analyze_field_nested_deeper(field_node, vars_in, current_depth) ==
    IF field_node.name = NoName THEN Raised
    ELSE LET base == get_field_complexity(field_node.name)
             own  == IF field_node.arguments # << >>
                     THEN base * calculate_argument_multiplier(
                                     field_node.arguments, vars_in)
                     ELSE base * Scale
         IN  IF field_node.selection_set # << >>
             THEN LET nested == analyze_selection_set(
                                    field_node.selection_set, vars_in,
                                    current_depth + 1)
                  IN  IF nested.raised THEN Raised
                      ELSE Pair(own + nested.complexity,
                                Max(current_depth, nested.depth))
             ELSE Pair(own, current_depth)

analyze_field(field_node, vars_in, current_depth) ==
    IF field_node.name = NoName THEN Raised
    ELSE LET base == get_field_complexity(field_node.name)
             own  == IF field_node.arguments # << >>
                     THEN base * calculate_argument_multiplier(
                                     field_node.arguments, vars_in)
                     ELSE base * Scale
         IN  IF field_node.selection_set # << >>
             THEN LET nested == analyze_selection_set(
                                    field_node.selection_set, vars_in,
                                    current_depth)
                  IN  IF nested.raised THEN Raised
                      ELSE Pair(own + nested.complexity,
                                Max(current_depth, nested.depth))
             ELSE Pair(own, current_depth)

RECURSIVE calculate_complexity_from(_, _, _, _)
\* Variant: the document costs as much as its most expensive definition.
calculate_complexity_from_max(definitions, vars_in, i, acc) ==
    IF i > Len(definitions) THEN acc
    ELSE LET sub == analyze_selection_set(definitions[i].selection_set,
                                          vars_in, 0)
         IN  IF sub.raised THEN Raised
             ELSE calculate_complexity_from(
                      definitions, vars_in, i + 1,
                      Pair(Max(acc.complexity, sub.complexity),
                           Max(acc.depth, sub.depth)))

calculate_complexity_from(definitions, vars_in, i, acc) ==
    IF i > Len(definitions) THEN acc
    ELSE LET sub == analyze_selection_set(definitions[i].selection_set,
                                          vars_in, 0)
         IN  IF sub.raised THEN Raised
             ELSE calculate_complexity_from(
                      definitions, vars_in, i + 1,
                      Pair(acc.complexity + sub.complexity,
                           Max(acc.depth, sub.depth)))

NoVariables == << >>

calculate_complexity(query_ast, vars_in) ==
    calculate_complexity_from(query_ast.definitions, vars_in, 1, Pair(0, 0))

ComplexityError(complexity, max_complexity) ==
    [ kind |-> "complexity", measured |-> complexity, maximum |-> max_complexity ]

DepthError(depth, max_depth) ==
    [ kind |-> "depth", measured |-> depth, maximum |-> max_depth ]

\* Variant: the ceilings are compared with >=.
enter_document_exclusive(a, node) ==
    LET res == calculate_complexity(node, NoVariables)
    IN  IF res.raised
        THEN [ errors |-> << >>, failed |-> TRUE ]
        ELSE [ errors |->
                 (IF res.complexity >= a.max_complexity * Scale
                  THEN << ComplexityError(res.complexity, a.max_complexity) >>
                  ELSE << >>)
                 \o
                 (IF res.depth >= a.max_depth
                  THEN << DepthError(res.depth, a.max_depth) >>
                  ELSE << >>),
               failed |-> FALSE ]

\* Variant: the depth check is skipped once a complexity error is reported.
enter_document_elif(a, node) ==
    LET res == calculate_complexity(node, NoVariables)
    IN  IF res.raised
        THEN [ errors |-> << >>, failed |-> TRUE ]
        ELSE [ errors |->
                 IF res.complexity > a.max_complexity * Scale
                 THEN << ComplexityError(res.complexity, a.max_complexity) >>
                 ELSE IF res.depth > a.max_depth
                      THEN << DepthError(res.depth, a.max_depth) >>
                      ELSE << >>,
               failed |-> FALSE ]

\* Variant: an analysis failure is reported as a validation error.
enter_document_fail_closed(a, node) ==
    LET res == calculate_complexity(node, NoVariables)
    IN  IF res.raised
        THEN [ errors |-> << [ kind |-> "analysis", measured |-> 0, maximum |-> 0 ] >>,
               failed |-> TRUE ]
        ELSE [ errors |->
                 (IF res.complexity > a.max_complexity * Scale
                  THEN << ComplexityError(res.complexity, a.max_complexity) >>
                  ELSE << >>)
                 \o
                 (IF res.depth > a.max_depth
                  THEN << DepthError(res.depth, a.max_depth) >>
                  ELSE << >>),
               failed |-> FALSE ]

\* QueryComplexityValidationRule.enter_document: the errors it reports and
\* whether the analysis raised (and was logged).
enter_document(a, node) ==
    LET res == calculate_complexity(node, NoVariables)
    IN  IF res.raised
        THEN [ errors |-> << >>, failed |-> TRUE ]
        ELSE [ errors |->
                 (IF res.complexity > a.max_complexity * Scale
                  THEN << ComplexityError(res.complexity, a.max_complexity) >>
                  ELSE << >>)
                 \o
                 (IF res.depth > a.max_depth
                  THEN << DepthError(res.depth, a.max_depth) >>
                  ELSE << >>),
               failed |-> FALSE ]

\* graphene.Schema(query=Query, mutation=Mutation): the validation rules the
\* schema applies besides those of the GraphQL specification.
schema_validation_rules == {}

(***************************************************************************)
(* Generated documents.                                                    *)
(***************************************************************************)
FieldNames == { "id", "tasks", "custom" }

ArgumentLists ==
    { << >>,
      << ArgumentNode("limit", IntValueNode(1000)) >>,
      << ArgumentNode("limit", VariableNode("limit")) >>,
      << ArgumentNode("organizationSlug", VariableNode("organizationSlug")) >>,
      << ArgumentNode("last", VariableNode("last")),
         ArgumentNode("where", VariableNode("where")) >> }

\* The variable values a request supplies: none, or all of them.
VariableChoices ==
    { << >>,
      [ limit |-> PyValue("int", 1000), first |-> PyValue("int", 50),
        last |-> PyValue("int", 5), negative |-> PyValue("int", 0 - 20),
        organizationSlug |-> PyValue("str", 0),
        filter |-> PyValue("dict", 0), where |-> PyValue("dict", 0) ] }

\* Only the list field takes arguments.
ArgumentsOf(n) == IF n = "tasks" THEN ArgumentLists ELSE { << >> }

LeafSelections ==
    UNION { { FieldNode(n, a, << >>) : a \in ArgumentsOf(n) } : n \in FieldNames }
    \cup { FieldNode(NoName, << >>, << >>), FragmentSpreadNode("F") }

RECURSIVE SelectionsOfSize(_)
RECURSIVE SelectionSetsOfSize(_)

\* selections made of exactly n nodes
SelectionsOfSize(n) ==
    IF n = 1 THEN LeafSelections
    ELSE UNION { { FieldNode(f, a, ss) : a \in ArgumentsOf(f),
                                         ss \in SelectionSetsOfSize(n - 1) } :
                 f \in FieldNames \ {"id"} }
         \cup { InlineFragmentNode(ss) : ss \in SelectionSetsOfSize(n - 1) }

\* non-empty selection sets made of exactly n nodes
SelectionSetsOfSize(n) ==
    { << s >> : s \in SelectionsOfSize(n) }
    \cup UNION { { << s >> \o rest : s \in SelectionsOfSize(k),
                                     rest \in SelectionSetsOfSize(n - k) } :
                 k \in 1..(n - 1) }

OperationDefinitionNode(selections) ==
    [ kind |-> "OperationDefinition", name |-> "", selection_set |-> selections ]

FragmentDefinitionNode(name, selections) ==
    [ kind |-> "FragmentDefinition", name |-> name, selection_set |-> selections ]

DefinitionsOfSize(n) ==
    { OperationDefinitionNode(ss) : ss \in SelectionSetsOfSize(n) }
    \cup { FragmentDefinitionNode("F", ss) : ss \in SelectionSetsOfSize(n) }

RECURSIVE DocumentsOfSize(_)
DocumentsOfSize(n) ==
    { [ definitions |-> << d >> ] : d \in DefinitionsOfSize(n) }
    \cup UNION { { [ definitions |-> << d >> \o rest.definitions ] :
                     d \in DefinitionsOfSize(k), rest \in DocumentsOfSize(n - k) } :
                 k \in 1..(n - 1) }

Var(name) == VariableNode(name)
Field(name, selections) == FieldNode(name, << >>, selections)
Leaf(name) == FieldNode(name, << >>, << >>)
Query(selections) == [ definitions |-> << OperationDefinitionNode(selections) >> ]

\* Documents of the scenarios: nested fields, sibling branches of different
\* depth, several operations, argument combinations, fragments.
ExampleDocuments ==
    { Query(<< Field("tasks", << Leaf("id"), Leaf("title") >>) >>),
      Query(<< Field("projects", << Field("tasks", << Field("comments",
                   << Leaf("id") >>) >>), Leaf("name") >>), Leaf("id") >>),
      [ definitions |-> <<
          OperationDefinitionNode(<< Field("projects", << Leaf("id") >>),
                                     Leaf("custom") >>),
          OperationDefinitionNode(<< Field("tasks", << Field("comments",
                                     << Leaf("id") >>) >>) >>) >> ],
      Query(<< FieldNode("tasks",
                 << ArgumentNode("first", Var("first")),
                    ArgumentNode("filter", Var("filter")),
                    ArgumentNode("status", StringValueNode(1)) >>,
                 << Leaf("id") >>) >>),
      Query(<< FieldNode("projects",
                 << ArgumentNode("first", Var("first")),
                    ArgumentNode("last", Var("last")) >>,
                 << >>) >>),
      Query(<< FieldNode("projects",
                 << ArgumentNode("first", Var("negative")),
                    ArgumentNode("last", Var("negative")) >>,
                 << >>) >>),
      Query(<< FieldNode("tasks",
                 << ArgumentNode("filter", Var("filter")),
                    ArgumentNode("where", Var("where")) >>,
                 << >>) >>),
      Query(<< Field("tasks", << InlineFragmentNode(<< Leaf("id"),
                   Field("comments", << Leaf("id") >>) >>) >>) >>),
      [ definitions |-> <<
          OperationDefinitionNode(<< Field("tasks", << FragmentSpreadNode("F") >>) >>),
          FragmentDefinitionNode("F", << Leaf("id"),
                                         Field("comments", << Leaf("id") >>) >>) >> ],
      [ definitions |-> <<
          OperationDefinitionNode(<< Field("tasks", << FragmentSpreadNode("F") >>),
                                     Field("project", << Field("tasks",
                                         << FragmentSpreadNode("F") >>) >>) >>),
          FragmentDefinitionNode("F", << Leaf("id") >>) >> ] }

Documents == UNION { DocumentsOfSize(n) : n \in 1..MaxNodes } \cup ExampleDocuments

RECURSIVE WellFormedSelections(_)
WellFormedSelections(selections) ==
    \A i \in DOMAIN selections :
        /\ selections[i].name # NoName
        /\ WellFormedSelections(selections[i].selection_set)

\* documents a parser can produce
WellFormed(d) ==
    \A i \in DOMAIN d.definitions :
        WellFormedSelections(d.definitions[i].selection_set)

RECURSIVE FieldCount(_)
FieldCount(selections) ==
    IF selections = << >> THEN 0
    ELSE (IF Head(selections).kind = "Field" THEN 1 ELSE 0)
         + FieldCount(Head(selections).selection_set)
         + FieldCount(Tail(selections))

(***************************************************************************)
(* Cost specification: a document is executed by the schema, or handed to  *)
(* a QueryComplexityValidationRule.                                        *)
(***************************************************************************)
SettingsChoices ==
    { [ GRAPHQL_MAX_COMPLEXITY |-> 1000, GRAPHQL_MAX_DEPTH |-> 10 ],
      [ GRAPHQL_MAX_COMPLEXITY |-> 6,    GRAPHQL_MAX_DEPTH |-> 1 ] }

RuleArguments == { << 0, 0 >>, << 5, 1 >> }

CostInit ==
    /\ organizations = StoreA.organizations
    /\ projects = StoreA.projects
    /\ tasks = StoreA.tasks
    /\ comments = StoreA.comments
    /\ current_organization = NoOrg
    /\ LoaderIdle
    /\ fetches = << >>
    /\ settings \in SettingsChoices
    /\ analyzer = [ max_complexity |-> 0, max_depth |-> 0 ]
    /\ doc = NoDocument
    /\ phase = "idle"
    /\ errors = << >>
    /\ analysis_failed = FALSE
    /\ resolved = 0
    /\ variables = << >>
    /\ result = Pair(0, 0)
    /\ StatsIdle /\ WebIdle

\* schema.execute(query, variables): validation with the schema's rules, then
\* execution of the operation, which runs the resolver of every selected
\* field.
Execute(d, vs) ==
    /\ WellFormed(d)
    /\ LET a == QueryComplexityAnalyzer_init(0, 0)
           v == IF "QueryComplexityValidationRule" \in schema_validation_rules
                THEN enter_document(a, d)
                ELSE [ errors |-> << >>, failed |-> FALSE ]
       IN  /\ analyzer' = a
           /\ errors' = v.errors
           /\ analysis_failed' = v.failed
           /\ phase' = IF v.errors = << >> THEN "executed" ELSE "rejected"
           /\ resolved' = IF v.errors = << >>
                          THEN FieldCount(d.definitions[1].selection_set)
                          ELSE 0
           /\ result' = IF "QueryComplexityValidationRule" \in schema_validation_rules
                         THEN calculate_complexity(d, NoVariables)
                         ELSE result
    /\ doc' = d
    /\ variables' = vs
    /\ UNCHANGED << settings, storeVars, loaderVars, fetches, statsVars, webVars >>

\* create_complexity_validator(max_complexity, max_depth).enter_document(d)
\* while a request carrying the variable values vs is validated.
EnterDocument(d, vs, max_complexity, max_depth) ==
    /\ LET a == QueryComplexityAnalyzer_init(max_complexity, max_depth)
           v == enter_document(a, d)
       IN  /\ analyzer' = a
           /\ errors' = v.errors
           /\ analysis_failed' = v.failed
           /\ phase' = IF v.errors = << >> THEN "rule_passed" ELSE "rule_failed"
           /\ result' = calculate_complexity(d, NoVariables)
    /\ doc' = d
    /\ variables' = vs
    /\ UNCHANGED << settings, resolved, storeVars, loaderVars, fetches, statsVars, webVars >>

\* QueryComplexityAnalyzer().calculate_complexity(d, vs)
CalculateComplexity(d, vs) ==
    /\ analyzer' = QueryComplexityAnalyzer_init(0, 0)
    /\ result' = calculate_complexity(d, vs)
    /\ phase' = IF result'.raised THEN "analysis_raised" ELSE "analysed"
    /\ doc' = d
    /\ variables' = vs
    /\ UNCHANGED << settings, errors, analysis_failed, resolved,
                    storeVars, loaderVars, fetches, statsVars, webVars >>

SchemaExecute ==
    phase = "idle" /\ \E d \in Documents, vs \in VariableChoices : Execute(d, vs)

RuleEnterDocument ==
    /\ phase = "idle"
    /\ \E d \in Documents, vs \in VariableChoices, args \in RuleArguments :
          EnterDocument(d, vs, args[1], args[2])

AnalyzerCalculate ==
    phase = "idle" /\ \E d \in Documents, vs \in VariableChoices : CalculateComplexity(d, vs)

CostNext == SchemaExecute \/ RuleEnterDocument \/ AnalyzerCalculate

CostSpec == CostInit /\ [][CostNext]_vars

(***************************************************************************)
(* QueryComplexityMiddleware: one resolve call for every field resolved.   *)
(***************************************************************************)
\* info.operation: the OperationDefinitionNode being executed.
OperationOf(d) ==
    d.definitions[CHOOSE i \in DOMAIN d.definitions :
                      /\ d.definitions[i].kind = "OperationDefinition"
                      /\ \A j \in 1..(i - 1) :
                            d.definitions[j].kind # "OperationDefinition"]

\* self.analyzer.calculate_complexity(query_ast): reading
\* query_ast.definitions raises when the node has no such attribute.
analyzer_calculate_complexity(query_ast) ==
    IF "definitions" \in DOMAIN query_ast
    THEN calculate_complexity(query_ast, NoVariables)
    ELSE Raised

\* QueryComplexityMiddleware.resolve: info.context afterwards.
QueryComplexityMiddleware_resolve(ctx, operation) ==
    IF ctx.has_complexity_analyzed
    THEN [ ctx EXCEPT !.resolves = @ + 1 ]
    ELSE IF analyzer_calculate_complexity(operation).raised
    THEN [ ctx EXCEPT !.resolves = @ + 1, !.analyses = @ + 1,
                      !.logged_failures = @ + 1 ]
    ELSE [ ctx EXCEPT !.resolves = @ + 1, !.analyses = @ + 1,
                      !.has_complexity_analyzed = TRUE ]

HasOperation(d) ==
    \E i \in DOMAIN d.definitions : d.definitions[i].kind = "OperationDefinition"

ResolveInit == CostInit

\* Execution of the operation of document d begins with a new info.context.
BeginOperation(d) ==
    /\ phase = "idle"
    /\ WellFormed(d) /\ HasOperation(d)
    /\ FieldCount(OperationOf(d).selection_set) > 0
    /\ doc' = d
    /\ phase' = "executing"
    /\ info_context' = NoContext
    /\ UNCHANGED << settings, analyzer, errors, analysis_failed, resolved, variables,
                    result, storeVars, loaderVars, fetches, statsVars,
                    payload, request, inflight, response >>

\* The resolver of the next field is called through the middleware.
MiddlewareResolve ==
    /\ phase = "executing"
    /\ resolved < FieldCount(OperationOf(doc).selection_set)
    /\ info_context' = QueryComplexityMiddleware_resolve(info_context, OperationOf(doc))
    /\ resolved' = resolved + 1
    /\ UNCHANGED << settings, analyzer, doc, phase, errors, analysis_failed, variables,
                    result, storeVars, loaderVars, fetches, statsVars,
                    payload, request, inflight, response >>

ResolveNext ==
    \/ \E d \in Documents : BeginOperation(d)
    \/ MiddlewareResolve

ResolveSpec == ResolveInit /\ [][ResolveNext]_vars

(***************************************************************************)
(* core/signals.py and the statistics resolvers of schema.py.              *)
(***************************************************************************)
\* core.utils.invalidate_project_statistics_cache(project_id, organization_slug)
invalidate_project_statistics_cache(c, project_id, organization_slug) ==
    cache_delete(c, project_stats_key(str_of(project_id), organization_slug))

\* core.utils.invalidate_organization_statistics_cache(organization_slug)
invalidate_organization_statistics_cache(c, organization_slug) ==
    cache_delete(c, org_stats_key(organization_slug))

ProjectOf(task) == CHOOSE p \in projects : p.id = task.project_id
TaskOf(comment) == CHOOSE t \in tasks : t.id = comment.task_id

\* Variant: a task change invalidates the project entry only.
invalidate_cache_on_task_change_project_only(c, instance) ==
    LET project == ProjectOf(instance)
        organization_slug == Organization_slug(project.organization_id)
    IN  invalidate_project_statistics_cache(c, project.id, organization_slug)

\* post_save / post_delete receiver of Task
invalidate_cache_on_task_change(c, instance) ==
    LET project == ProjectOf(instance)
        organization_slug == Organization_slug(project.organization_id)
    IN  invalidate_organization_statistics_cache(
            invalidate_project_statistics_cache(c, project.id, organization_slug),
            organization_slug)

\* Variant: a comment change invalidates the organization entry as well.
invalidate_cache_on_comment_change_and_organization(c, instance) ==
    LET project == ProjectOf(TaskOf(instance))
        organization_slug == Organization_slug(project.organization_id)
    IN  invalidate_organization_statistics_cache(
            invalidate_project_statistics_cache(c, project.id, organization_slug),
            organization_slug)

\* post_save / post_delete receiver of TaskComment
invalidate_cache_on_comment_change(c, instance) ==
    LET project == ProjectOf(TaskOf(instance))
        organization_slug == Organization_slug(project.organization_id)
    IN  invalidate_project_statistics_cache(c, project.id, organization_slug)

\* project.tasks.aggregate(...): the counts of the project's tasks.
ProjectStatistics(project_id) ==
    LET ts == { t \in Task_objects : t.project_id = project_id }
    IN  Statistics(Cardinality(ts), Cardinality({ t \in ts : t.id \in done }), 0)

\* The aggregates over the organization's projects and their tasks.
OrganizationStatistics(organization_id) ==
    LET ps == { p \in Project_objects : p.organization_id = organization_id }
        ts == { t \in Task_objects : \E p \in projects :
                   p.id = t.project_id /\ p.organization_id = organization_id }
    IN  Statistics(Cardinality(ts), Cardinality({ t \in ts : t.id \in done }),
                   Cardinality(ps))

Faults == { "none", "get", "set" }

\* What a statistics resolver hands back: the value it returns or the
\* exception it raises, and the cache it leaves.
Returns(value, c) == [ error |-> FALSE, value |-> value, cache |-> c ]
Raises(c)         == [ error |-> TRUE,  value |-> Absent, cache |-> c ]

\* Query.resolve_project_statistics; fault names the cache call that raises.
resolve_project_statistics(project_id, organization_slug, fault) ==
    IF ~\E o \in organizations : Organization_slug(o.id) = organization_slug
    THEN Raises(cache)
    ELSE LET organization == CHOOSE o \in organizations :
                                 Organization_slug(o.id) = organization_slug
         IN  IF ~\E q \in Project_objects :
                    q.id = int_of(project_id) /\ q.organization_id = organization.id
             THEN Raises(cache)
             ELSE LET cache_key == project_stats_key(project_id, organization_slug)
                  IN  IF fault = "get" THEN Raises(cache)
                      ELSE IF cache_get(cache, cache_key).present
                      THEN Returns(cache_get(cache, cache_key), cache)
                      ELSE LET statistics == ProjectStatistics(int_of(project_id))
                           IN  IF fault = "set" THEN Raises(cache)
                               ELSE Returns(statistics,
                                            cache_set(cache, cache_key, statistics))

\* Query.resolve_organization_statistics
resolve_organization_statistics(organization_slug, fault) ==
    IF ~\E o \in organizations : Organization_slug(o.id) = organization_slug
    THEN Raises(cache)
    ELSE LET organization == CHOOSE o \in organizations :
                                 Organization_slug(o.id) = organization_slug
             cache_key == org_stats_key(organization_slug)
         IN  IF fault = "get" THEN Raises(cache)
             ELSE IF cache_get(cache, cache_key).present
             THEN Returns(cache_get(cache, cache_key), cache)
             ELSE LET statistics == OrganizationStatistics(organization.id)
                  IN  IF fault = "set" THEN Raises(cache)
                      ELSE Returns(statistics,
                                   cache_set(cache, cache_key, statistics))

(***************************************************************************)
(* Statistics specification: statistics queries interleaved with saves and *)
(* deletes of tasks and comments, whose signals invalidate the cache.      *)
(***************************************************************************)
StatsInit ==
    /\ organizations = StoreB.organizations
    /\ projects = StoreB.projects
    /\ tasks = StoreB.tasks
    /\ comments = StoreB.comments
    /\ current_organization = NoOrg
    /\ LoaderIdle
    /\ fetches = << >>
    /\ CostIdle
    /\ StatsIdle /\ WebIdle

\* the id the database gives the next row of a table
NextId(rows) ==
    IF rows = {} THEN 1
    ELSE 1 + (CHOOSE m \in { r.id : r \in rows } : \A r \in rows : r.id <= m)

Event(kind, instance_project, c) ==
    LET organization_slug == Organization_slug(instance_project.organization_id)
    IN  [ kind |-> kind, id |-> str_of(instance_project.id),
          project |-> instance_project.id, slug |-> organization_slug,
          fault |-> "none", error |-> FALSE, value |-> Absent,
          had_project_entry |->
              c[project_stats_key(str_of(instance_project.id), organization_slug)].present,
          had_org_entry |-> c[org_stats_key(organization_slug)].present ]

\* projectStatistics(projectId, organizationSlug)
QueryProjectStatistics(project_id, organization_slug, fault) ==
    LET r == resolve_project_statistics(project_id, organization_slug, fault)
    IN  /\ cache' = r.cache
        /\ last' = [ kind |-> "project_query", id |-> project_id,
                     project |-> int_of(project_id), slug |-> organization_slug,
                     fault |-> fault, error |-> r.error, value |-> r.value,
                     had_project_entry |->
                         cache[project_stats_key(project_id, organization_slug)].present,
                     had_org_entry |-> cache[org_stats_key(organization_slug)].present ]
        /\ UNCHANGED << done, touched, nchanges, storeVars, loaderVars, fetches, costVars, webVars >>

\* organizationStatistics(organizationSlug)
QueryOrganizationStatistics(organization_slug, fault) ==
    LET r == resolve_organization_statistics(organization_slug, fault)
    IN  /\ cache' = r.cache
        /\ last' = [ kind |-> "organization_query", id |-> << >>,
                     project |-> 0, slug |-> organization_slug,
                     fault |-> fault, error |-> r.error, value |-> r.value,
                     had_project_entry |-> FALSE,
                     had_org_entry |-> cache[org_stats_key(organization_slug)].present ]
        /\ UNCHANGED << done, touched, nchanges, storeVars, loaderVars, fetches, costVars, webVars >>

\* Task.objects.create(project=project, ...): post_save
CreateTask(project) ==
    /\ nchanges < MaxChanges
    /\ LET task == [ id |-> NextId(tasks), project_id |-> project.id,
                     created_at |-> NextId(tasks) ]
       IN  /\ tasks' = tasks \cup { task }
           /\ cache' = invalidate_cache_on_task_change(cache, task)
    /\ last' = Event("task_created", project, cache)
    /\ touched' = touched \cup { project.id }
    /\ nchanges' = nchanges + 1
    /\ UNCHANGED << organizations, projects, comments, current_organization,
                    done, loaderVars, fetches, costVars, webVars >>

\* task.status = ...; task.save(): post_save
UpdateTask(task) ==
    /\ nchanges < MaxChanges
    /\ done' = IF task.id \in done THEN done \ { task.id } ELSE done \cup { task.id }
    /\ cache' = invalidate_cache_on_task_change(cache, task)
    /\ last' = Event("task_updated", ProjectOf(task), cache)
    /\ touched' = touched \cup { task.project_id }
    /\ nchanges' = nchanges + 1
    /\ UNCHANGED << storeVars, loaderVars, fetches, costVars, webVars >>

\* task.delete(): the comments of the task are deleted with it; post_delete
\* of each comment, then of the task
DeleteTask(task) ==
    /\ nchanges < MaxChanges
    /\ tasks' = tasks \ { task }
    /\ comments' = { c \in comments : c.task_id # task.id }
    /\ done' = done \ { task.id }
    /\ cache' = invalidate_cache_on_task_change(
                    IF \E c \in comments : c.task_id = task.id
                    THEN invalidate_cache_on_comment_change(
                             cache, CHOOSE c \in comments : c.task_id = task.id)
                    ELSE cache,
                    task)
    /\ last' = Event("task_deleted", ProjectOf(task), cache)
    /\ touched' = touched \cup { task.project_id }
    /\ nchanges' = nchanges + 1
    /\ UNCHANGED << organizations, projects, current_organization,
                    loaderVars, fetches, costVars, webVars >>

\* TaskComment.objects.create(task=task, ...): post_save
CreateComment(task) ==
    /\ nchanges < MaxChanges
    /\ LET comment == [ id |-> NextId(comments), task_id |-> task.id,
                        created_at |-> NextId(comments) ]
       IN  /\ comments' = comments \cup { comment }
           /\ cache' = invalidate_cache_on_comment_change(cache, comment)
    /\ last' = Event("comment_created", ProjectOf(task), cache)
    /\ nchanges' = nchanges + 1
    /\ UNCHANGED << organizations, projects, tasks, current_organization,
                    done, touched, loaderVars, fetches, costVars, webVars >>

\* comment.content = ...; comment.save(): post_save
UpdateComment(comment) ==
    /\ nchanges < MaxChanges
    /\ cache' = invalidate_cache_on_comment_change(cache, comment)
    /\ last' = Event("comment_updated", ProjectOf(TaskOf(comment)), cache)
    /\ nchanges' = nchanges + 1
    /\ UNCHANGED << done, touched, storeVars, loaderVars, fetches, costVars, webVars >>

\* comment.delete(): post_delete
DeleteComment(comment) ==
    /\ nchanges < MaxChanges
    /\ comments' = comments \ { comment }
    /\ cache' = invalidate_cache_on_comment_change(cache, comment)
    /\ last' = Event("comment_deleted", ProjectOf(TaskOf(comment)), cache)
    /\ nchanges' = nchanges + 1
    /\ UNCHANGED << organizations, projects, tasks, current_organization,
                    done, touched, loaderVars, fetches, costVars, webVars >>

\* The entry of a key reaches its timeout.
CacheExpire(key) ==
    /\ cache[key].present
    /\ cache' = cache_delete(cache, key)
    /\ last' = [ NoEvent EXCEPT !.kind = "expired" ]
    /\ UNCHANGED << done, touched, nchanges, storeVars, loaderVars, fetches, costVars, webVars >>

StatsNext ==
    \/ \E t \in IdTexts, g \in Slugs, f \in Faults : QueryProjectStatistics(t, g, f)
    \/ \E g \in Slugs, f \in Faults : QueryOrganizationStatistics(g, f)
    \/ \E p \in projects : CreateTask(p)
    \/ \E t \in tasks : UpdateTask(t)
    \/ \E t \in tasks : DeleteTask(t)
    \/ \E t \in tasks : CreateComment(t)
    \/ \E c \in comments : UpdateComment(c)
    \/ \E c \in comments : DeleteComment(c)
    \/ \E k \in CacheKeys : CacheExpire(k)

StatsSpec == StatsInit /\ [][StatsNext]_vars

(***************************************************************************)
(* schema.py: the task mutations.                                          *)
(***************************************************************************)
\* The organizationSlug values a mutation input can carry: the slugs of the
\* organizations and one that no organization has.
SlugInputs == Slugs \cup { 3 }

\* Organization.objects.get(slug=input.organization_slug)
OrganizationLookup(organization_slug) ==
    { o \in organizations : Organization_slug(o.id) = organization_slug }

\* Project.objects.get(id=input.project_id, organization=organization)
ProjectLookup(project_id, organization) ==
    { q \in Project_objects : q.id = project_id /\ q.organization_id = organization.id }

\* Variant: Task.objects.get(id=input.id), without the organization.
TaskLookup_by_id_only(id, organization) ==
    { t \in Task_objects : t.id = id }

\* Task.objects.get(id=input.id, project__organization=organization)
TaskLookup(id, organization) ==
    { t \in Task_objects :
          t.id = id /\ ProjectOf(t).organization_id = organization.id }

Payload(mutation, id, organization_slug, success, errs, task) ==
    [ n |-> payload.n + 1, mutation |-> mutation, id |-> id,
      slug |-> organization_slug, success |-> success, errors |-> errs,
      task |-> task ]

\* A mutation that returns without touching the store or the cache.
Refuse(mutation, id, organization_slug, errs) ==
    /\ payload' = Payload(mutation, id, organization_slug, FALSE, errs, 0)
    /\ UNCHANGED << storeVars, statsVars, loaderVars, fetches, costVars,
                    request, inflight, response, info_context >>

\* Mutation.resolve_create_task; valid tells whether the title, status,
\* assignee and due date of the input pass the validation.
resolve_create_task(project_id, organization_slug, valid) ==
    /\ payload.n < MaxChanges
    /\ IF OrganizationLookup(organization_slug) = {}
       THEN Refuse("createTask", project_id, organization_slug,
                   << "organization not found" >>)
       ELSE LET organization == CHOOSE o \in OrganizationLookup(organization_slug) : TRUE
            IN  IF ProjectLookup(project_id, organization) = {}
                THEN Refuse("createTask", project_id, organization_slug,
                            << "project not found in organization" >>)
                ELSE IF ~valid
                THEN Refuse("createTask", project_id, organization_slug,
                            << "invalid input" >>)
                ELSE LET task == [ id |-> NextId(tasks), project_id |-> project_id,
                                   created_at |-> NextId(tasks) ]
                     IN  /\ tasks' = tasks \cup { task }
                         /\ cache' = invalidate_cache_on_task_change(cache, task)
                         /\ payload' = Payload("createTask", project_id,
                                               organization_slug, TRUE, << >>, task.id)
                         /\ UNCHANGED << organizations, projects, comments,
                                         current_organization, done, last, touched,
                                         nchanges, loaderVars, fetches, costVars,
                                         request, inflight, response, info_context >>

\* Mutation.resolve_update_task; an accepted update changes the status.
resolve_update_task(id, organization_slug, valid) ==
    /\ payload.n < MaxChanges
    /\ IF OrganizationLookup(organization_slug) = {}
       THEN Refuse("updateTask", id, organization_slug,
                   << "organization not found" >>)
       ELSE LET organization == CHOOSE o \in OrganizationLookup(organization_slug) : TRUE
            IN  IF TaskLookup(id, organization) = {}
                THEN Refuse("updateTask", id, organization_slug,
                            << "task not found in organization" >>)
                ELSE IF ~valid
                THEN Refuse("updateTask", id, organization_slug, << "invalid input" >>)
                ELSE LET task == CHOOSE t \in TaskLookup(id, organization) : TRUE
                     IN  /\ done' = IF task.id \in done THEN done \ { task.id }
                                    ELSE done \cup { task.id }
                         /\ cache' = invalidate_cache_on_task_change(cache, task)
                         /\ payload' = Payload("updateTask", id, organization_slug,
                                               TRUE, << >>, task.id)
                         /\ UNCHANGED << storeVars, last, touched, nchanges,
                                         loaderVars, fetches, costVars,
                                         request, inflight, response, info_context >>

\* Mutation.resolve_delete_task; the comments of the task go with it.
resolve_delete_task(id, organization_slug) ==
    /\ payload.n < MaxChanges
    /\ IF OrganizationLookup(organization_slug) = {}
       THEN Refuse("deleteTask", id, organization_slug,
                   << "organization not found" >>)
       ELSE LET organization == CHOOSE o \in OrganizationLookup(organization_slug) : TRUE
            IN  IF TaskLookup(id, organization) = {}
                THEN Refuse("deleteTask", id, organization_slug,
                            << "task not found in organization" >>)
                ELSE LET task == CHOOSE t \in TaskLookup(id, organization) : TRUE
                     IN  /\ tasks' = tasks \ { task }
                         /\ comments' = { c \in comments : c.task_id # task.id }
                         /\ done' = done \ { task.id }
                         /\ cache' = invalidate_cache_on_task_change(
                                IF \E c \in comments : c.task_id = task.id
                                THEN invalidate_cache_on_comment_change(
                                         cache, CHOOSE c \in comments : c.task_id = task.id)
                                ELSE cache,
                                task)
                         /\ payload' = Payload("deleteTask", id, organization_slug,
                                               TRUE, << >>, task.id)
                         /\ UNCHANGED << organizations, projects, current_organization,
                                         last, touched, nchanges, loaderVars, fetches,
                                         costVars, request, inflight, response, info_context >>

(***************************************************************************)
(* Mutation specification: task mutations called with any id and slug.     *)
(***************************************************************************)
MutationInit ==
    /\ \E st \in InitialStores :
         /\ organizations = st.organizations
         /\ projects = st.projects
         /\ tasks = st.tasks
         /\ comments = st.comments
    /\ current_organization \in { NoOrg } \cup { o.id : o \in StoreA.organizations }
    /\ LoaderIdle /\ fetches = << >> /\ CostIdle /\ StatsIdle /\ WebIdle

MutationNext ==
    \/ \E id \in Keys, g \in SlugInputs, valid \in BOOLEAN :
          resolve_create_task(id, g, valid)
    \/ \E id \in Keys, g \in SlugInputs, valid \in BOOLEAN :
          resolve_update_task(id, g, valid)
    \/ \E id \in Keys, g \in SlugInputs : resolve_delete_task(id, g)

MutationSpec == MutationInit /\ [][MutationNext]_vars

(***************************************************************************)
(* Race specification: a projectStatistics query running in one request    *)
(* thread while a task mutation runs in another.  The query's cache.get,   *)
(* its aggregate over the store and its cache.set are separate steps; the  *)
(* mutation's save and the signal receiver it triggers run in between.     *)
(***************************************************************************)
RaceInit ==
    /\ \E st \in InitialStores :
         /\ organizations = st.organizations
         /\ projects = st.projects
         /\ tasks = st.tasks
         /\ comments = st.comments
    /\ current_organization = NoOrg
    /\ LoaderIdle /\ fetches = << >> /\ CostIdle /\ StatsIdle /\ WebIdle

RaceFrame ==
    UNCHANGED << storeVars, loaderVars, fetches, costVars, done, last, touched,
                 nchanges, payload, request, response, info_context >>

\* resolve_project_statistics up to cache.get: the lookups of the
\* organization and the project, then the read of the cache.
StatisticsCacheGet(project_id, organization_slug) ==
    /\ inflight.pc = "none"
    /\ LET found == /\ OrganizationLookup(organization_slug) # {}
                    /\ \E q \in Project_objects :
                          /\ q.id = int_of(project_id)
                          /\ Organization_slug(q.organization_id) = organization_slug
           cache_key == project_stats_key(project_id, organization_slug)
       IN  inflight' =
              [ pc |-> IF ~found THEN "raised"
                       ELSE IF cache_get(cache, cache_key).present THEN "returned"
                       ELSE "missed",
                id |-> project_id, slug |-> organization_slug,
                statistics |-> IF found THEN cache_get(cache, cache_key) ELSE Absent ]
    /\ UNCHANGED cache
    /\ RaceFrame

\* project.tasks.aggregate(...) and the construction of the statistics
StatisticsAggregate ==
    /\ inflight.pc = "missed"
    /\ inflight' = [ inflight EXCEPT !.pc = "computed",
                                     !.statistics = ProjectStatistics(int_of(inflight.id)) ]
    /\ UNCHANGED cache
    /\ RaceFrame

\* cache.set(cache_key, statistics, 300) and the return
StatisticsCacheSet ==
    /\ inflight.pc = "computed"
    /\ cache' = cache_set(cache, project_stats_key(inflight.id, inflight.slug),
                          inflight.statistics)
    /\ inflight' = [ inflight EXCEPT !.pc = "returned" ]
    /\ RaceFrame

RaceNext ==
    \/ \E q \in projects, g \in SlugInputs : StatisticsCacheGet(str_of(q.id), g)
    \/ StatisticsAggregate
    \/ StatisticsCacheSet
    \/ \E id \in Keys, g \in SlugInputs, valid \in BOOLEAN :
          resolve_create_task(id, g, valid)
    \/ \E id \in Keys, g \in SlugInputs, valid \in BOOLEAN :
          resolve_update_task(id, g, valid)
    \/ \E id \in Keys, g \in SlugInputs : resolve_delete_task(id, g)

RaceSpec == RaceInit /\ [][RaceNext]_vars

(***************************************************************************)
(* core/middleware.py: the organization context of a request.              *)
(*                                                                         *)
(* A middleware built on MiddlewareMixin runs process_request, then, unless *)
(* that returned a response, the rest of the chain, then process_response. *)
(* An exception leaving the view is offered to every process_exception and *)
(* then turned into a 500 response before it reaches a middleware.         *)
(***************************************************************************)
\* The placements of ThreadLocalOrganizationMiddleware: not installed,
\* after OrganizationContextMiddleware or before it.
Chains == { "none", "inner", "outer" }

Hooks(chain) ==
    CASE chain = "none"  -> << "context.process_request", "view" >>
      [] chain = "inner" -> << "context.process_request", "local.process_request",
                               "view", "local.process_response" >>
      [] chain = "outer" -> << "local.process_request", "context.process_request",
                               "view", "local.process_response" >>

\* The X-Organization-Slug values: none, the slug of an organization, or a
\* slug that no organization has.
Headers == { 0 } \cup SlugInputs

\* OrganizationContextMiddleware.process_request: the request afterwards.
\* A response returned here ends the request for every inner hook.
OrganizationContextMiddleware_process_request(req) ==
    IF req.exempt \/ req.header = 0
    THEN [ req EXCEPT !.organization = NoOrg, !.has_organization = TRUE,
                      !.todo = Tail(@) ]
    ELSE IF req.lookup_raises
    THEN [ req EXCEPT !.status = 500,
                      !.todo = SelectSeq(Tail(@),
                                  LAMBDA h : /\ h = "local.process_response"
                                             /\ req.chain = "outer") ]
    ELSE IF OrganizationLookup(req.header) # {}
    THEN [ req EXCEPT !.organization =
                          (CHOOSE o \in OrganizationLookup(req.header) : TRUE).id,
                      !.has_organization = TRUE,
                      !.todo = Tail(@) ]
    ELSE [ req EXCEPT !.status = 404,
                      !.todo = SelectSeq(Tail(@),
                                  LAMBDA h : /\ h = "local.process_response"
                                             /\ req.chain = "outer") ]

\* set_current_organization(organization): the attribute of the thread.
set_current_organization(organization) == organization

\* ThreadLocalOrganizationMiddleware.process_request
ThreadLocalOrganizationMiddleware_process_request(req) ==
    set_current_organization(IF req.has_organization THEN req.organization
                             ELSE NoOrg)

\* Variant: process_response leaves the thread's organization in place.
ThreadLocalOrganizationMiddleware_process_response_without_cleanup(current) ==
    current

\* ThreadLocalOrganizationMiddleware.process_response
ThreadLocalOrganizationMiddleware_process_response(current) ==
    set_current_organization(NoOrg)

\* ThreadLocalOrganizationMiddleware.process_exception
ThreadLocalOrganizationMiddleware_process_exception(current) ==
    set_current_organization(NoOrg)

(***************************************************************************)
(* Middleware specification: one thread serves requests one after another. *)
(***************************************************************************)
MiddlewareInit ==
    /\ \E st \in InitialStores :
         /\ organizations = st.organizations
         /\ projects = st.projects
         /\ tasks = st.tasks
         /\ comments = st.comments
    /\ current_organization = NoOrg
    /\ LoaderIdle /\ fetches = << >> /\ CostIdle /\ StatsIdle
    /\ payload = NoPayload /\ inflight = NoQuery /\ response = {}
    /\ info_context = NoContext
    /\ \E chain \in Chains : request = [ NoRequest EXCEPT !.chain = chain ]

MiddlewareFrame ==
    UNCHANGED << organizations, projects, tasks, comments, loaderVars, fetches,
                 costVars, statsVars, payload, inflight, response, info_context >>

\* The thread takes the next request.
RequestArrives(exempt, header, view_raises, lookup_raises) ==
    /\ request.todo = << >>
    /\ request.n < MaxRequests
    /\ request' = [ NoRequest EXCEPT
           !.n = request.n + 1, !.chain = request.chain,
           !.todo = Hooks(request.chain),
           !.exempt = exempt, !.header = header, !.view_raises = view_raises,
           !.lookup_raises = lookup_raises,
           !.earlier = request.earlier ]
    /\ UNCHANGED current_organization
    /\ MiddlewareFrame

ContextProcessRequest ==
    /\ request.todo # << >>
    /\ Head(request.todo) = "context.process_request"
    /\ request' = OrganizationContextMiddleware_process_request(request)
    /\ UNCHANGED current_organization
    /\ MiddlewareFrame

ThreadLocalProcessRequest ==
    /\ request.todo # << >>
    /\ Head(request.todo) = "local.process_request"
    /\ current_organization' =
           ThreadLocalOrganizationMiddleware_process_request(request)
    /\ request' = [ request EXCEPT
           !.todo = Tail(@),
           !.earlier = @ \cup ({ current_organization' } \ { NoOrg }) ]
    /\ MiddlewareFrame

\* get_response: the view reads get_current_organization(), queries
\* Project.objects and returns, or raises.
ViewRuns ==
    /\ request.todo # << >>
    /\ Head(request.todo) = "view"
    /\ request' = [ request EXCEPT
           !.handled = TRUE,
           !.observed = current_organization,
           !.scoped = { q.id : q \in Project_objects },
           !.status = IF request.view_raises THEN 500 ELSE 200,
           !.todo = IF request.view_raises /\ request.chain # "none"
                    THEN << "local.process_exception" >> \o Tail(@)
                    ELSE Tail(@) ]
    /\ UNCHANGED current_organization
    /\ MiddlewareFrame

ThreadLocalProcessException ==
    /\ request.todo # << >>
    /\ Head(request.todo) = "local.process_exception"
    /\ current_organization' =
           ThreadLocalOrganizationMiddleware_process_exception(current_organization)
    /\ request' = [ request EXCEPT !.todo = Tail(@) ]
    /\ MiddlewareFrame

ThreadLocalProcessResponse ==
    /\ request.todo # << >>
    /\ Head(request.todo) = "local.process_response"
    /\ current_organization' =
           ThreadLocalOrganizationMiddleware_process_response(current_organization)
    /\ request' = [ request EXCEPT !.todo = Tail(@) ]
    /\ MiddlewareFrame

MiddlewareNext ==
    \/ \E exempt \in BOOLEAN, header \in Headers, view_raises \in BOOLEAN,
          lookup_raises \in BOOLEAN :
          RequestArrives(exempt, header, view_raises, lookup_raises)
    \/ ContextProcessRequest
    \/ ThreadLocalProcessRequest
    \/ ViewRuns
    \/ ThreadLocalProcessException
    \/ ThreadLocalProcessResponse

MiddlewareSpec == MiddlewareInit /\ [][MiddlewareNext]_vars

(***************************************************************************)
(* schema.py: the root query resolvers and the nested fields they lead to. *)
(*                                                                         *)
(* response holds the nodes of the responses under construction.  A node   *)
(* names the request, the organizationSlug given to the root field it      *)
(* descends from, the kind and id of the object, and the loader whose      *)
(* promise the field is waiting for ("" for an object).                    *)
(***************************************************************************)
StoreC ==
    [ organizations |-> { [id |-> 1], [id |-> 2] },
      projects |-> { [id |-> 1, organization_id |-> 1, created_at |-> 1],
                     [id |-> 2, organization_id |-> 2, created_at |-> 2] },
      tasks    |-> { [id |-> 1, project_id |-> 1, created_at |-> 1],
                     [id |-> 2, project_id |-> 2, created_at |-> 2] },
      comments |-> { [id |-> 1, task_id |-> 1, created_at |-> 1],
                     [id |-> 2, task_id |-> 2, created_at |-> 2] } ]

Node(r, organization_slug, kind, id) ==
    [ request |-> r, slug |-> organization_slug, kind |-> kind, id |-> id,
      loader |-> "" ]

PromiseNode(r, organization_slug, l, pid) ==
    [ request |-> r, slug |-> organization_slug, kind |-> "promise", id |-> pid,
      loader |-> l ]

\* Variant: Project.objects without .filter(organization=organization).
Query_resolve_projects_unfiltered(organization) == Project_objects

\* Query.resolve_projects: the queryset for an organization that exists.
Query_resolve_projects(organization) ==
    { q \in Project_objects : q.organization_id = organization.id }

\* Query.resolve_project: .get(id=id, organization=organization)
Query_resolve_project(id, organization) == ProjectLookup(id, organization)

\* Query.resolve_tasks: .filter(project__organization=organization)
Query_resolve_tasks(organization) ==
    { t \in Task_objects : ProjectOf(t).organization_id = organization.id }

\* Query.resolve_task: .get(id=id, project__organization=organization)
Query_resolve_task(id, organization) == TaskLookup(id, organization)

\* Query.resolve_task_comments: the comments of a task of the organization.
Query_resolve_task_comments(task_id, organization) ==
    IF TaskLookup(task_id, organization) = {} THEN {}
    ELSE { c \in TaskComment_objects : c.task_id = task_id }

RootFields == { "projects", "project", "tasks", "task", "taskComments" }

\* The objects a root field returns and their kind; a slug that no
\* organization has makes every root resolver raise.
RootObjects(field, id, organization_slug) ==
    IF OrganizationLookup(organization_slug) = {} THEN {}
    ELSE LET organization == CHOOSE o \in OrganizationLookup(organization_slug) : TRUE
         IN  CASE field = "projects" -> Query_resolve_projects(organization)
               [] field = "project" -> Query_resolve_project(id, organization)
               [] field = "tasks" -> Query_resolve_tasks(organization)
               [] field = "task" -> Query_resolve_task(id, organization)
               [] field = "taskComments" -> Query_resolve_task_comments(id, organization)

RootKind(field) ==
    CASE field \in { "projects", "project" } -> "project"
      [] field \in { "tasks", "task" } -> "task"
      [] field = "taskComments" -> "comment"

IsolationInit ==
    /\ organizations = StoreC.organizations
    /\ projects = StoreC.projects
    /\ tasks = StoreC.tasks
    /\ comments = StoreC.comments
    /\ current_organization \in { NoOrg, 1 }
    /\ LoaderIdle /\ fetches = << >> /\ CostIdle /\ StatsIdle /\ WebIdle

IsolationFrame ==
    UNCHANGED << storeVars, fetches, costVars, statsVars, payload, request,
                 inflight, info_context >>

\* The request whose execution is followed.
QueryRequest == 1

\* The request executes a root field with the given organizationSlug.
RootField(field, id, organization_slug) ==
    /\ response' = response \cup
           { Node(QueryRequest, organization_slug, RootKind(field), x.id) :
                 x \in RootObjects(field, id, organization_slug) }
    /\ response' # response
    /\ UNCHANGED loaderVars
    /\ IsolationFrame

\* A nested field of the object of node n is resolved by loader l with
\* key `key`: the field's value is the promise load() returns.
NestedLoad(n, l, key) ==
    /\ nloads < MaxNested
    /\ LoaderLoad(n.request, l, key)
    /\ LET c == get_dataloaders(n.request)
           L == DataLoader_load(loaders[c][l], n.request, key)
       IN  response' = response \cup
               { PromiseNode(n.request, n.slug, l, L.calls[Len(L.calls)].pid) }
    /\ IsolationFrame

\* ProjectType.resolve_tasks on a project of the response
NestedTasks(n) ==
    /\ n \in response /\ n.kind = "project"
    /\ NestedLoad(n, "tasks_by_project_loader", n.id)

\* TaskType.resolve_comments on a task of the response
NestedComments(n) ==
    /\ n \in response /\ n.kind = "task"
    /\ NestedLoad(n, "comments_by_task_loader", n.id)

\* TaskType.resolve_project on a task of the response
NestedProject(n) ==
    /\ n \in response /\ n.kind = "task"
    /\ \E t \in tasks : t.id = n.id /\ NestedLoad(n, "project_loader", t.project_id)

LoadedKind(l) ==
    CASE l = "tasks_by_project_loader" -> "task"
      [] l = "comments_by_task_loader" -> "comment"
      [] l = "project_loader" -> "project"

\* The promise a field is waiting for has been fulfilled: the objects it
\* delivers take the field's place in the response.
CompleteField(n) ==
    /\ n \in response /\ n.kind = "promise"
    /\ LET promise == loaders[dataloaders[n.request]][n.loader].promises[n.id]
       IN  /\ promise.state = "resolved"
           /\ response' = (response \ { n }) \cup
                  { Node(n.request, n.slug, LoadedKind(n.loader), i) :
                        i \in (IF promise.value.kind = "list"
                               THEN { promise.value.items[k] :
                                          k \in DOMAIN promise.value.items }
                               ELSE IF promise.value.kind = "obj"
                               THEN { promise.value.id } ELSE {}) }
    /\ UNCHANGED loaderVars
    /\ IsolationFrame

IsolationNext ==
    \/ \E field \in RootFields, id \in Keys, organization_slug \in SlugInputs :
           RootField(field, id, organization_slug)
    \/ \E n \in response : NestedTasks(n)
    \/ \E n \in response : NestedComments(n)
    \/ \E n \in response : NestedProject(n)
    \/ \E c \in ContextIds, l \in LoaderNames : Dispatch(c, l)
    \/ \E n \in response : CompleteField(n)

IsolationSpec == IsolationInit /\ [][IsolationNext]_vars

(***************************************************************************)
(* Properties of the batch loaders.                                        *)
(***************************************************************************)
NoDuplicates(seq) == \A i, j \in DOMAIN seq : seq[i] = seq[j] => i = j

AllLoaders == ContextIds \X LoaderNames

LoaderAt(cl) == loaders[cl[1]][cl[2]]

\* C1: in every scheduling turn of every loader the bulk fetch is invoked at
\* most once, and its key list holds, without repetition, exactly the keys
\* passed to load() during that turn that were not memoized before it; the
\* same holds of the keys queued for the turn in progress.
C1_OneFetchPerTurnWithDistinctNewKeys ==
    \A cl \in AllLoaders :
        LET B == LoaderAt(cl).batches
        IN  /\ \A i, j \in DOMAIN B : B[i].turn = B[j].turn => i = j
            /\ \A i \in DOMAIN B :
                  /\ NoDuplicates(B[i].keys)
                  /\ KeySet(B[i].keys) = B[i].asked \ B[i].memo
            /\ NoDuplicates(QueueKeys(LoaderAt(cl)))
            /\ KeySet(QueueKeys(LoaderAt(cl))) = LoaderAt(cl).asked \ LoaderAt(cl).memo

\* A turn in which one key was passed to load() twice has been dispatched
\* with that key once.
C1_Witness ==
    \E cl \in AllLoaders :
        \E i \in DOMAIN LoaderAt(cl).batches :
            LET b == LoaderAt(cl).batches[i]
                C == LoaderAt(cl).calls
            IN  /\ Len(b.keys) = 1
                /\ \E m, n \in DOMAIN C :
                      /\ m # n
                      /\ C[m].turn = b.turn /\ C[n].turn = b.turn
                      /\ C[m].key = b.keys[1] /\ C[n].key = b.keys[1]

\* Every load() call made by request r on loader attribute l, in whatever
\* context get_dataloaders handed to the request.
RequestCalls(r, l) ==
    UNION { { [ context |-> c, index |-> i,
                key |-> loaders[c][l].calls[i].key,
                pid |-> loaders[c][l].calls[i].pid,
                hit |-> loaders[c][l].calls[i].hit,
                turn |-> loaders[c][l].calls[i].turn,
                promise |-> loaders[c][l].promises[loaders[c][l].calls[i].pid] ] :
              i \in { j \in DOMAIN loaders[c][l].calls :
                        loaders[c][l].calls[j].request = r } } :
            c \in ContextIds }

\* C2: within one request, two load() calls of the same key on the same
\* loader attribute return the same promise (hence the same result) unless
\* the fetch of one of them failed, and a key that a bulk fetch has returned
\* is in no later bulk fetch of that loader.
C2_RepeatedLoadIsMemoized ==
    /\ \A r \in Requests, l \in LoaderNames :
          \A x, y \in RequestCalls(r, l) :
              ( /\ x.key = y.key
                /\ x.promise.state # "rejected"
                /\ y.promise.state # "rejected" )
              => (x.context = y.context /\ x.pid = y.pid)
    /\ \A cl \in AllLoaders :
          LET B == LoaderAt(cl).batches
          IN  \A i, j \in DOMAIN B :
                  (i < j /\ B[i].outcome = "returned")
                  => KeySet(B[i].keys) \cap KeySet(B[j].keys) = {}

\* A key resolved in one turn was loaded again in a later turn and served
\* from the memoized promise.
C2_Witness ==
    \E r \in Requests, l \in LoaderNames :
        \E x, y \in RequestCalls(r, l) :
            /\ x.key = y.key
            /\ x.turn < y.turn
            /\ ~x.hit /\ y.hit
            /\ x.promise.state = "resolved"

\* C5: when the bulk fetch of a dispatch raises, every promise queued in
\* that dispatch is rejected with the raised cause, none holds a value, and
\* none of them is handed to another bulk fetch.
C5_FailedFetchRejectsEveryPendingLoad ==
    \A cl \in AllLoaders :
        LET L == LoaderAt(cl)
        IN  \A i \in DOMAIN L.batches :
                L.batches[i].fetch_error # "" =>
                    \A n \in DOMAIN L.batches[i].pids :
                        LET pid == L.batches[i].pids[n]
                        IN  /\ L.promises[pid] = Rejected(L.batches[i].fetch_error)
                            /\ \A j \in DOMAIN L.batches :
                                  (\E m \in DOMAIN L.batches[j].pids :
                                      L.batches[j].pids[m] = pid) => j = i

\* A bulk fetch with two queued keys has raised and both of its promises
\* are rejected.
C5_Witness ==
    \E cl \in AllLoaders :
        LET L == LoaderAt(cl)
        IN  \E i \in DOMAIN L.batches :
                /\ L.batches[i].fetch_error # ""
                /\ Len(L.batches[i].pids) >= 2
                /\ \A n \in DOMAIN L.batches[i].pids :
                      L.promises[L.batches[i].pids[n]].state = "rejected"

\* C6: get_dataloaders hands every request one context for its whole life,
\* no context is handed to two requests, and every load() recorded in a
\* loader was issued by the request that owns the loader's context.
C6_ContextIsRequestScoped ==
    /\ \A r \in Requests : Cardinality(returned[r]) <= 1
    /\ \A r1, r2 \in Requests : r1 # r2 => returned[r1] \cap returned[r2] = {}
    /\ \A cl \in AllLoaders : \A i \in DOMAIN LoaderAt(cl).calls :
          dataloaders[LoaderAt(cl).calls[i].request] = cl[1]

\* Two requests have loaded the same key of the same loader attribute, each
\* through its own context, and neither load was served from a memoized
\* entry.
C6_Witness ==
    \E r1, r2 \in Requests : \E l \in LoaderNames :
        /\ r1 # r2
        /\ dataloaders[r1] # NoAttr /\ dataloaders[r2] # NoAttr
        /\ \E x \in RequestCalls(r1, l), y \in RequestCalls(r2, l) :
              x.key = y.key /\ ~x.hit /\ ~y.hit

(***************************************************************************)
(* Properties of the bulk fetches.                                         *)
(***************************************************************************)
\* The rows a loader's queryset yields and the key each row is filed under.
LoaderTable(l) ==
    CASE l = "organization_loader" -> organizations
      [] l \in { "project_loader", "projects_by_organization_loader" } -> Project_objects
      [] l \in { "task_loader", "tasks_by_project_loader" } -> Task_objects
      [] l \in { "comment_loader", "comments_by_task_loader" } -> TaskComment_objects

ReferencedKey(l, row) ==
    CASE l = "projects_by_organization_loader" -> row.organization_id
      [] l = "tasks_by_project_loader" -> row.project_id
      [] l = "comments_by_task_loader" -> row.task_id
      [] OTHER -> row.id

RowsFor(l, key) == { x \in LoaderTable(l) : ReferencedKey(l, x) = key }

\* The record ids delivered in one element of a result list.
Delivered(v) ==
    CASE v.kind = "list" -> { v.items[n] : n \in DOMAIN v.items }
      [] v.kind = "obj"  -> { v.id }
      [] OTHER -> {}

\* C3: the result list of a bulk fetch is as long as its key list and its
\* i-th element holds exactly the fetched records that reference the i-th
\* key, each once.
C3_ResultsArePositionalAndKeyed ==
    \A f \in DOMAIN fetches :
        LET l == fetches[f].loader
            K == fetches[f].keys
            V == fetches[f].values
        IN  /\ Len(V) = Len(K)
            /\ \A i \in DOMAIN K :
                  /\ Delivered(V[i]) = { x.id : x \in RowsFor(l, K[i]) }
                  /\ V[i].kind = "list" => NoDuplicates(V[i].items)

\* A grouping fetch over two different keys delivered two records under
\* one key while the other key has records of its own or none.
C3_Witness ==
    \E f \in DOMAIN fetches :
        /\ fetches[f].loader \in GroupingLoaders
        /\ Len(fetches[f].keys) = 2
        /\ fetches[f].keys[1] # fetches[f].keys[2]
        /\ \E i \in DOMAIN fetches[f].values :
              Len(fetches[f].values[i].items) = 2
        /\ \E i \in DOMAIN fetches[f].values :
              Len(fetches[f].values[i].items) < 2

\* C4: a key that no fetched record references resolves to an empty list in
\* a grouping loader and to None in a singular loader.
C4_MissingKeyIsEmptyOrNone ==
    \A f \in DOMAIN fetches :
        \A i \in DOMAIN fetches[f].keys :
            RowsFor(fetches[f].loader, fetches[f].keys[i]) = {}
            => /\ i \in DOMAIN fetches[f].values
               /\ fetches[f].values[i] =
                     IF fetches[f].loader \in GroupingLoaders
                     THEN PyList(<< >>) ELSE PyNone

\* A grouping fetch has been given a key without records next to a key
\* with records.
C4_Witness ==
    \E f \in DOMAIN fetches :
        /\ fetches[f].loader \in GroupingLoaders
        /\ \E i \in DOMAIN fetches[f].keys :
              /\ RowsFor(fetches[f].loader, fetches[f].keys[i]) = {}
              /\ fetches[f].values[i] = PyList(<< >>)
        /\ \E i \in DOMAIN fetches[f].keys :
              RowsFor(fetches[f].loader, fetches[f].keys[i]) # {}

(***************************************************************************)
(* Properties of the query cost limits.                                    *)
(***************************************************************************)
\* What the analyzer measures on the current document.
Measured == calculate_complexity(doc, NoVariables)

OverComplexity == Measured.complexity > analyzer.max_complexity * Scale
OverDepth      == Measured.depth > analyzer.max_depth

RuleRan == phase \in { "rule_passed", "rule_failed" }

ErrorKinds == { errors[i].kind : i \in DOMAIN errors }

\* C7: a document executed by the schema whose measured complexity or depth
\* is over the configured ceiling is rejected and none of its resolvers run.
C7_OverLimitQueryNeverExecutes ==
    (phase \in { "executed", "rejected" } /\ (OverComplexity \/ OverDepth))
    => (phase = "rejected" /\ errors # << >> /\ resolved = 0)

C10_AnalysisFailureFailsOpen ==
    (RuleRan /\ Measured.raised)
    => (analysis_failed /\ errors = << >> /\ phase = "rule_passed")

\* The analysis of a document raised after costing fields that alone exceed
\* the ceiling.
C10_Witness ==
    /\ RuleRan
    /\ analysis_failed
    /\ ~WellFormed(doc)
    /\ \E i \in DOMAIN doc.definitions :
          \E j \in DOMAIN doc.definitions[i].selection_set :
              LET f == doc.definitions[i].selection_set[j]
              IN  /\ f.name # NoName
                  /\ f.kind = "Field"
                  /\ get_field_complexity(f.name) * Scale >= analyzer.max_complexity * Scale

(***************************************************************************)
(* Properties of the cost analysis.                                        *)
(***************************************************************************)
RECURSIVE FieldsIn(_)
\* every FieldNode of a selection list, at any nesting level
FieldsIn(selections) ==
    IF selections = << >> THEN {}
    ELSE (IF Head(selections).kind = "Field" THEN { Head(selections) } ELSE {})
         \cup FieldsIn(Head(selections).selection_set)
         \cup FieldsIn(Tail(selections))

FieldsOf(d) ==
    UNION { FieldsIn(d.definitions[i].selection_set) : i \in DOMAIN d.definitions }

RECURSIVE Pow10(_)
Pow10(k) == IF k = 0 THEN 1 ELSE 10 * Pow10(k - 1)

PaginationNames == { "first", "last", "limit" }
FilterNames     == { "filter", "where", "organizationSlug" }

\* The value an argument resolves to is a Python int.
IntegerSized(argument, vs) == get_argument_value(argument, vs).pytype = "int"

\* Numerator, over the denominator 10, of the factor one argument
\* contributes: min(n, 100) / 10, 1.2 = 12 / 10, or 1 = 10 / 10.
FactorTenths(argument, vs) ==
    IF argument.name \in PaginationNames
    THEN Min(get_argument_value(argument, vs).value, 100)
    ELSE IF argument.name \in FilterNames THEN 12 ELSE 10

RECURSIVE ProductTenths(_, _)
\* Numerator of the product of the factors, over the denominator 10^Len.
ProductTenths(arguments, vs) ==
    IF arguments = << >> THEN 1
    ELSE FactorTenths(Head(arguments), vs) * ProductTenths(Tail(arguments), vs)

\* All pagination arguments of the list resolve to ints.
SizesKnown(arguments, vs) ==
    \A i \in DOMAIN arguments :
        arguments[i].name \in PaginationNames => IntegerSized(arguments[i], vs)

SingleLeaf(d) ==
    /\ Len(d.definitions) = 1
    /\ d.definitions[1].kind = "OperationDefinition"
    /\ Len(d.definitions[1].selection_set) = 1
    /\ d.definitions[1].selection_set[1].kind = "Field"
    /\ d.definitions[1].selection_set[1].name # NoName
    /\ d.definitions[1].selection_set[1].selection_set = << >>

TheLeaf(d) == d.definitions[1].selection_set[1]

Analysed == phase = "analysed"

HasLimit1000(f, vs) ==
    /\ Len(f.arguments) = 1
    /\ f.arguments[1].name = "limit"
    /\ \/ /\ f.arguments[1].value.kind = "IntValue"
          /\ f.arguments[1].value.value = 1000
       \/ /\ f.arguments[1].value.kind = "Variable"
          /\ f.arguments[1].value.name \in DOMAIN vs
          /\ vs[f.arguments[1].value.name] = PyValue("int", 1000)

\* C12: when the validation rule analyses a document made of one field that
\* carries limit: 1000 (literal or variable) and no other argument, the
\* field is costed at min(1000, 100) / 10 = 10 times its base cost.
C12_LimitThousandCostsTenfold ==
    (RuleRan /\ ~analysis_failed /\ SingleLeaf(doc)
        /\ HasLimit1000(TheLeaf(doc), variables))
    => result.complexity = 10 * get_field_complexity(TheLeaf(doc).name) * Scale

RECURSIVE OnlyFields(_)
\* the selection list holds fields only, at every nesting level
OnlyFields(selections) ==
    \A i \in DOMAIN selections :
        /\ selections[i].kind = "Field"
        /\ OnlyFields(selections[i].selection_set)

\* a document of operations without fragments of any kind
FragmentFree(d) ==
    \A i \in DOMAIN d.definitions :
        /\ d.definitions[i].kind = "OperationDefinition"
        /\ OnlyFields(d.definitions[i].selection_set)

RECURSIVE CostOfFields(_, _)
\* Sum over the fields of a list of: base cost times argument multiplier,
\* plus the cost of the selections nested under the field.
CostOfFields(selections, vs) ==
    IF selections = << >> THEN 0
    ELSE LET f == Head(selections)
         IN  get_field_complexity(f.name)
               * (IF f.arguments = << >> THEN Scale
                  ELSE calculate_argument_multiplier(f.arguments, vs))
             + CostOfFields(f.selection_set, vs)
             + CostOfFields(Tail(selections), vs)

SingleOperation(d) == Len(d.definitions) = 1 /\ FragmentFree(d)

\* C13: the complexity of a field is its base cost (2 for a name outside
\* the table) times its argument multiplier plus the complexities of the
\* selections nested under it; a single scalar field costs its base cost.
C13_FieldCostIsBaseTimesMultiplierPlusNested ==
    (Analysed /\ SingleOperation(doc))
    => /\ result.complexity
            = CostOfFields(doc.definitions[1].selection_set, variables)
       /\ (SingleLeaf(doc) /\ TheLeaf(doc).arguments = << >>)
          => /\ result.complexity = get_field_complexity(TheLeaf(doc).name) * Scale
             /\ result.depth = 1
             /\ TheLeaf(doc).name = "id" => result.complexity = 1 * Scale
             /\ TheLeaf(doc).name = "custom" => result.complexity = 2 * Scale

\* A field costing 5 with two argument-less children costing 1 each has
\* been analysed: complexity 7, depth 2.
C13_Witness ==
    /\ Analysed
    /\ doc = Query(<< Field("tasks", << Leaf("id"), Leaf("title") >>) >>)
    /\ result = Pair(7 * Scale, 2)

RECURSIVE NestingDepth(_)
\* Number of field levels of the deepest branch of a selection list.
NestingDepth(selections) ==
    IF selections = << >> THEN 0
    ELSE Max(1 + NestingDepth(Head(selections).selection_set),
             NestingDepth(Tail(selections)))

\* C14: top-level fields of an operation are at depth 1, a field is one
\* deeper than its parent, and the reported depth is the maximum over all
\* branches: the number of field levels of the deepest branch.
C14_DepthIsDeepestBranch ==
    (Analysed /\ SingleOperation(doc))
    => /\ result.depth = NestingDepth(doc.definitions[1].selection_set)
       /\ \A i \in DOMAIN doc.definitions[1].selection_set :
             LET f == doc.definitions[1].selection_set[i]
             IN  /\ result.depth >= 1
                 /\ result.depth >= 1 + NestingDepth(f.selection_set)
                 /\ analyze_field(f, variables, 1).depth
                       = 1 + NestingDepth(f.selection_set)

\* An operation with a branch of four levels next to shallower branches has
\* been analysed.
C14_Witness ==
    /\ Analysed
    /\ SingleOperation(doc)
    /\ Len(doc.definitions[1].selection_set) = 2
    /\ NestingDepth(doc.definitions[1].selection_set[1].selection_set) = 3
    /\ NestingDepth(doc.definitions[1].selection_set[2].selection_set) = 0
    /\ result.depth = 4

RECURSIVE SumOverOperations(_, _)
\* Sum of the field costs of the operations of a definition list.
SumOverOperations(definitions, vs) ==
    IF definitions = << >> THEN 0
    ELSE CostOfFields(Head(definitions).selection_set, vs)
         + SumOverOperations(Tail(definitions), vs)

RECURSIVE DeepestOperation(_)
\* Depth of the deepest operation of a definition list.
DeepestOperation(definitions) ==
    IF definitions = << >> THEN 0
    ELSE Max(NestingDepth(Head(definitions).selection_set),
             DeepestOperation(Tail(definitions)))

IsOperation(definition) == definition.kind = "OperationDefinition"
IsFragment(definition)  == definition.kind = "FragmentDefinition"

RECURSIVE SpreadsIn(_)
\* names of the fragments spread anywhere in a selection list
SpreadsIn(selections) ==
    IF selections = << >> THEN {}
    ELSE (IF Head(selections).kind = "FragmentSpread"
          THEN { Head(selections).name } ELSE {})
         \cup SpreadsIn(Head(selections).selection_set)
         \cup SpreadsIn(Tail(selections))

FragmentNames(d) ==
    { d.definitions[i].name : i \in { j \in DOMAIN d.definitions :
                                         IsFragment(d.definitions[j]) } }

\* The selection set of the fragment of that name.
FragmentBody(d, name) ==
    LET i == CHOOSE j \in DOMAIN d.definitions :
                 IsFragment(d.definitions[j]) /\ d.definitions[j].name = name
    IN  d.definitions[i].selection_set

\* A document the other validation rules accept: it has an operation, every
\* spread names a fragment of the document, every fragment is spread by an
\* operation, fragment names are unique and no fragment spreads a fragment.
FragmentsValid(d) ==
    /\ \E i \in DOMAIN d.definitions : IsOperation(d.definitions[i])
    /\ \A i, j \in DOMAIN d.definitions :
          (IsFragment(d.definitions[i]) /\ IsFragment(d.definitions[j])
             /\ d.definitions[i].name = d.definitions[j].name) => i = j
    /\ \A i \in DOMAIN d.definitions :
          IF IsFragment(d.definitions[i])
          THEN SpreadsIn(d.definitions[i].selection_set) = {}
          ELSE SpreadsIn(d.definitions[i].selection_set) \subseteq FragmentNames(d)
    /\ FragmentNames(d) =
          UNION { SpreadsIn(d.definitions[i].selection_set) :
                    i \in { j \in DOMAIN d.definitions : IsOperation(d.definitions[j]) } }

UsesFragments(d) ==
    \E i \in DOMAIN d.definitions :
        IsFragment(d.definitions[i]) \/ ~OnlyFields(d.definitions[i].selection_set)

RECURSIVE Flatten(_, _)
\* The selection list with the fields of every inline fragment and of every
\* spread fragment written at the place of the fragment.
Flatten(selections, d) ==
    IF selections = << >> THEN << >>
    ELSE LET sel == Head(selections)
         IN  (CASE sel.kind = "Field" ->
                     << FieldNode(sel.name, sel.arguments,
                                  Flatten(sel.selection_set, d)) >>
                [] sel.kind = "InlineFragment" -> Flatten(sel.selection_set, d)
                [] sel.kind = "FragmentSpread" -> Flatten(FragmentBody(d, sel.name), d))
             \o Flatten(Tail(selections), d)

\* The operations of the document with every fragment inlined.
Inlined(d) ==
    LET ops == SelectSeq(d.definitions, IsOperation)
    IN  [ i \in DOMAIN ops |->
            OperationDefinitionNode(Flatten(ops[i].selection_set, d)) ]

\* C16: the cost and depth measured for a document that uses inline
\* fragments or fragment spreads are those of the same document with the
\* fields of every fragment written at the spread site.
C16_FragmentsCostAsInlined ==
    (Analysed /\ FragmentsValid(doc) /\ UsesFragments(doc))
    => /\ result.complexity = SumOverOperations(Inlined(doc), variables)
       /\ result.depth = DeepestOperation(Inlined(doc))

(***************************************************************************)
(* Properties of the statistics cache.                                     *)
(***************************************************************************)
TaskChanges    == { "task_created", "task_updated", "task_deleted" }
CommentChanges == { "comment_created", "comment_updated", "comment_deleted" }

\* The keys of the statistics entries of the instance the last change was
\* about.
LastProjectKey == project_stats_key(str_of(last.project), last.slug)
LastOrgKey     == org_stats_key(last.slug)

\* C17: right after a task has been created, updated or deleted, the cache
\* holds neither the statistics entry of the task's project nor the
\* statistics entry of its organization.
C17_TaskChangeInvalidatesProjectAndOrganization ==
    last.kind \in TaskChanges
    => /\ ~cache[LastProjectKey].present
       /\ ~cache[LastOrgKey].present

\* A task changed while both entries were cached.
C17_Witness ==
    /\ last.kind \in TaskChanges
    /\ last.had_project_entry
    /\ last.had_org_entry
    /\ ~cache[LastProjectKey].present
    /\ ~cache[LastOrgKey].present

\* C18: a step that creates, updates or deletes a comment removes the
\* statistics entry of the project of the comment's task and leaves every
\* other cache entry as it was.
C18_CommentChangeInvalidatesProjectOnly ==
    [][ last'.kind \in CommentChanges
        => LET key == project_stats_key(str_of(last'.project), last'.slug)
           IN  /\ ~cache'[key].present
               /\ \A k \in CacheKeys \ { key } : cache'[k] = cache[k] ]_vars

\* A comment changed while the entry of its project, the entry of another
\* project and the entry of the organization were cached: the latter two
\* are still there.
C18_Witness ==
    /\ last.kind \in CommentChanges
    /\ last.had_project_entry
    /\ last.had_org_entry
    /\ ~cache[LastProjectKey].present
    /\ cache[LastOrgKey].present
    /\ \E k \in CacheKeys :
          /\ k.prefix = "project_stats"
          /\ int_of(k.id) # last.project
          /\ cache[k].present

\* C19: once a task of a project has been created, updated or deleted, a
\* projectStatistics query for that project returns the statistics of the
\* project's tasks as they are now.
C19_StatisticsFreshAfterTaskChange ==
    (last.kind = "project_query" /\ ~last.error /\ last.fault = "none"
        /\ last.project \in touched)
    => last.value = ProjectStatistics(last.project)

\* The project or organization a statistics query names exists.
QueryTargetExists ==
    IF last.kind = "project_query"
    THEN \E q \in projects : /\ q.id = last.project
                              /\ Organization_slug(q.organization_id) = last.slug
    ELSE \E o \in organizations : Organization_slug(o.id) = last.slug

\* C20: a statistics query during which a cache call fails returns
\* statistics and raises no error.
C20_CacheFailureIsAMiss ==
    (last.kind \in { "project_query", "organization_query" }
        /\ last.fault # "none" /\ QueryTargetExists)
    => /\ ~last.error
       /\ last.value.present

(***************************************************************************)
(* Properties of the grouped-tasks scenario.                               *)
(***************************************************************************)
ScenarioLoader == loaders[1]["tasks_by_project_loader"]

CallKeys(L) == [ i \in DOMAIN L.calls |-> L.calls[i].key ]

\* The number of records in the list each load() call was answered with.
ResultSizes(L) ==
    [ i \in DOMAIN L.calls |-> Len(L.promises[L.calls[i].pid].value.items) ]

TasksOfProject(project_id) == { t \in tasks : t.project_id = project_id }

\* Keys 1, 2, 1, 3 were loaded in one turn, the turn has been dispatched,
\* and the store holds 2, 1 and 2 tasks for projects 1, 2 and 3.
ExampleDispatched ==
    /\ CallKeys(ScenarioLoader) = << 1, 2, 1, 3 >>
    /\ \A i \in DOMAIN ScenarioLoader.calls : ScenarioLoader.calls[i].turn = 1
    /\ ScenarioLoader.queue = << >>
    /\ Cardinality(tasks) = 5
    /\ Cardinality(TasksOfProject(1)) = 2
    /\ Cardinality(TasksOfProject(2)) = 1
    /\ Cardinality(TasksOfProject(3)) = 2

OneFetchOfOneTwoThree ==
    /\ Len(ScenarioLoader.batches) = 1
    /\ NoDuplicates(ScenarioLoader.batches[1].keys)
    /\ KeySet(ScenarioLoader.batches[1].keys) = { 1, 2, 3 }

\* C21 (as stated): the loads of keys 1, 2, 1, 3 are answered with lists of
\* 2, 1, 2 and 1 tasks, from one bulk fetch over the keys {1, 2, 3}.
C21_ExampleYieldsTwoOneTwoOne ==
    ExampleDispatched =>
        /\ OneFetchOfOneTwoThree
        /\ ResultSizes(ScenarioLoader) = << 2, 1, 2, 1 >>

\* C21 (amended): the loads of keys 1, 2, 1, 3 are answered with lists of
\* 2, 1, 2 and 2 tasks (project 3 holds two tasks), each list holding the
\* tasks of its own key, from one bulk fetch over the keys {1, 2, 3}.
C21_ExampleYieldsTwoOneTwoTwo ==
    ExampleDispatched =>
        /\ OneFetchOfOneTwoThree
        /\ ResultSizes(ScenarioLoader) = << 2, 1, 2, 2 >>
        /\ \A i \in DOMAIN ScenarioLoader.calls :
              Delivered(ScenarioLoader.promises[ScenarioLoader.calls[i].pid].value)
                  = { t.id : t \in TasksOfProject(ScenarioLoader.calls[i].key) }

\* The four loads of the example have been made in one turn and answered.
C21_Witness ==
    /\ ExampleDispatched
    /\ \A i \in DOMAIN ScenarioLoader.calls :
          ScenarioLoader.promises[ScenarioLoader.calls[i].pid].state = "resolved"

(***************************************************************************)
(* Properties of clear_all.                                                *)
(***************************************************************************)
\* The number of load() calls made on L before the last clear_all() that
\* precedes call i (0: no clear_all() precedes it).
LastClearBefore(L, i) ==
    LET before == { L.clears[n] : n \in DOMAIN L.clears } \cap 0..(i - 1)
    IN  IF before = {} \/ L.clears = << >> THEN 0
        ELSE CHOOSE m \in before : \A x \in before : x <= m

\* Call i is the first load() of its key since a clear_all(), and the key had
\* been loaded before that clear_all().
ReloadAfterClear(L, i) ==
    /\ \E n \in DOMAIN L.clears : L.clears[n] < i
    /\ \E j \in 1..LastClearBefore(L, i) : L.calls[j].key = L.calls[i].key
    /\ \A j \in (LastClearBefore(L, i) + 1)..(i - 1) :
          L.calls[j].key # L.calls[i].key

\* The promise of call i was created by that call and is waiting for, or
\* was answered by, a bulk fetch that includes the key.
FetchedAnew(L, i) ==
    /\ ~L.calls[i].hit
    /\ \A j \in 1..(i - 1) : L.calls[j].pid # L.calls[i].pid
    /\ \/ \E q \in DOMAIN L.queue :
             L.queue[q].pid = L.calls[i].pid /\ L.queue[q].key = L.calls[i].key
       \/ \E b \in DOMAIN L.batches : \E n \in DOMAIN L.batches[b].pids :
             /\ L.batches[b].pids[n] = L.calls[i].pid
             /\ L.batches[b].keys[n] = L.calls[i].key

\* Every promise a returned bulk fetch has answered holds the value that
\* fetch delivered for it.
DeliveredValuesKept(L) ==
    \A b \in DOMAIN L.batches :
        L.batches[b].outcome = "returned" =>
            \A n \in DOMAIN L.batches[b].pids :
                L.promises[L.batches[b].pids[n]] = Fulfilled(L.batches[b].values[n])

ReloadsFetchAnew ==
    \A cl \in AllLoaders :
        /\ \A i \in DOMAIN LoaderAt(cl).calls :
              ReloadAfterClear(LoaderAt(cl), i) => FetchedAnew(LoaderAt(cl), i)
        /\ DeliveredValuesKept(LoaderAt(cl))

\* A step in which clear_all() was called on context c.
ClearAllStep(c) ==
    Len(loaders'[c]["organization_loader"].clears)
        > Len(loaders[c]["organization_loader"].clears)

\* C22: a clear_all() on a context leaves no memoized entry in any of its
\* seven loaders and changes no promise and no queue; after it, the first
\* load() of a key loaded before gets a new promise that is answered by a
\* bulk fetch including the key, and every promise answered earlier still
\* holds the value it was answered with.
C22_ClearAllEvictsEveryLoader ==
    /\ []ReloadsFetchAnew
    /\ [][ \A c \in ContextIds :
              ClearAllStep(c) =>
                  \A l \in LoaderNames :
                      /\ MemoizedKeys(loaders'[c][l].cache) = {}
                      /\ loaders'[c][l].promises = loaders[c][l].promises
                      /\ loaders'[c][l].queue = loaders[c][l].queue ]_vars

\* A key of comments_by_task_loader was loaded and answered, clear_all() was
\* called, and the key was loaded again and answered by a second bulk fetch.
C22_Witness ==
    \E c \in ContextIds :
        LET L == loaders[c]["comments_by_task_loader"]
        IN  /\ Len(L.clears) >= 1
            /\ Len(L.batches) = 2
            /\ \E i, j \in DOMAIN L.calls :
                  /\ i <= L.clears[1] /\ L.clears[1] < j
                  /\ L.calls[i].key = L.calls[j].key
                  /\ L.calls[i].pid # L.calls[j].pid
                  /\ L.promises[L.calls[i].pid].state = "resolved"
                  /\ L.promises[L.calls[j].pid].state = "resolved"
                  /\ L.calls[i].key \in KeySet(L.batches[1].keys)
                  /\ L.calls[i].key \in KeySet(L.batches[2].keys)

(***************************************************************************)
(* Properties of the task mutations.                                       *)
(***************************************************************************)
\* The mutation that returned pl named an existing organization, and its
\* target (the project of createTask, the task of the others) exists in the
\* store and belongs to another organization.
ForeignTarget(pl) ==
    /\ \E o \in organizations : Organization_slug(o.id) = pl.slug
    /\ IF pl.mutation = "createTask"
       THEN \E q \in projects :
               q.id = pl.id /\ Organization_slug(q.organization_id) # pl.slug
       ELSE \E t \in tasks : \E q \in projects :
               /\ t.id = pl.id /\ q.id = t.project_id
               /\ Organization_slug(q.organization_id) # pl.slug

\* C23: a task mutation given the slug of an existing organization that
\* does not own its target returns success = false with a non-empty errors
\* list and leaves every table and every task status as it was.
C23_ForeignOrganizationMutationIsRefused ==
    [][ (payload'.n # payload.n /\ ForeignTarget(payload'))
        => /\ ~payload'.success
           /\ payload'.errors # << >>
           /\ tasks' = tasks /\ comments' = comments /\ projects' = projects
           /\ organizations' = organizations /\ done' = done ]_vars

\* updateTask has been refused for a task that another organization owns.
C23_Witness ==
    /\ payload.mutation = "updateTask"
    /\ ForeignTarget(payload)
    /\ ~payload.success
    /\ payload.errors = << "task not found in organization" >>
    /\ \E t \in tasks : t.id = payload.id

(***************************************************************************)
(* Properties of the organization context.                                 *)
(***************************************************************************)
Completed == request.n > 0 /\ request.todo = << >>

UnknownSlug(header) ==
    header # 0 /\ ~\E o \in organizations : Organization_slug(o.id) = header

\* C24: a completed request on a non-exempt path whose X-Organization-Slug
\* names no organization met no exception in OrganizationContextMiddleware
\* and was handled by the view, which saw no current organization.
C24_UnknownOrganizationIsHandledWithoutContext ==
    (Completed /\ ~request.exempt /\ UnknownSlug(request.header)
               /\ ~request.lookup_raises)
    => /\ ~request.raised
       /\ request.handled
       /\ request.observed = NoOrg

\* The organization the request itself names through its header on a path
\* that is not exempt (NoOrg when it names none).
OwnOrganization ==
    IF ~request.exempt /\ request.header # 0 /\ ~UnknownSlug(request.header)
    THEN (CHOOSE o \in organizations : Organization_slug(o.id) = request.header).id
    ELSE NoOrg

ScopedTo(organization) ==
    IF organization = NoOrg THEN { q.id : q \in projects }
    ELSE { q.id : q \in { x \in projects : x.organization_id = organization } }

\* C27: with ThreadLocalOrganizationMiddleware installed, the thread's
\* current organization is None whenever a request has completed, and the
\* view of a request sees either no organization or the one its own request
\* names, its manager queries being scoped accordingly.
C27_ThreadOrganizationIsClearedAfterEachRequest ==
    request.chain # "none" =>
        /\ Completed => current_organization = NoOrg
        /\ request.todo = << >> => current_organization = NoOrg
        /\ request.handled =>
              /\ request.observed \in { NoOrg, OwnOrganization }
              /\ request.scoped = ScopedTo(request.observed)

\* A second request that names no organization has completed after its view
\* raised, on a thread where an earlier request had set an organization; its
\* view saw none and its manager yielded the projects of every organization.
C27_Witness ==
    /\ request.chain = "inner"
    /\ request.n >= 2
    /\ Completed
    /\ request.earlier # {}
    /\ request.handled /\ request.view_raises /\ request.status = 500
    /\ request.header = 0
    /\ request.observed = NoOrg
    /\ request.scoped = { q.id : q \in projects }
    /\ current_organization = NoOrg

(***************************************************************************)
(* Properties of the order of grouped results.                             *)
(***************************************************************************)
CreatedAt(rows, id) == (CHOOSE x \in rows : x.id = id).created_at

\* The records named by ids were created one after the other.
OldestFirst(rows, ids) ==
    \A m, n \in DOMAIN ids :
        m < n => CreatedAt(rows, ids[m]) < CreatedAt(rows, ids[n])

NewestFirst(rows, ids) ==
    \A m, n \in DOMAIN ids :
        m < n => CreatedAt(rows, ids[m]) > CreatedAt(rows, ids[n])

\* C25 (as stated): every list of comments_by_task_loader is in ascending
\* creation time and every list of tasks_by_project_loader holds the
\* earliest inserted task first.
C25_GroupedListsAreOldestFirst ==
    \A f \in DOMAIN fetches : \A i \in DOMAIN fetches[f].values :
        /\ fetches[f].loader = "comments_by_task_loader"
              => OldestFirst(comments, fetches[f].values[i].items)
        /\ fetches[f].loader = "tasks_by_project_loader"
              => OldestFirst(tasks, fetches[f].values[i].items)

\* C25 (amended): every list of comments_by_task_loader is in ascending
\* creation time, and every list of tasks_by_project_loader is in the
\* default order of the Task model, descending creation time (the task
\* inserted last comes first).
C25_CommentsOldestFirstTasksNewestFirst ==
    \A f \in DOMAIN fetches : \A i \in DOMAIN fetches[f].values :
        /\ fetches[f].loader = "comments_by_task_loader"
              => OldestFirst(comments, fetches[f].values[i].items)
        /\ fetches[f].loader = "tasks_by_project_loader"
              => NewestFirst(tasks, fetches[f].values[i].items)

\* A bulk fetch of tasks_by_project_loader has delivered a list of two
\* tasks, the later created one first.
C25_Witness ==
    \E f \in DOMAIN fetches : \E i \in DOMAIN fetches[f].values :
        /\ fetches[f].loader = "tasks_by_project_loader"
        /\ Len(fetches[f].values[i].items) = 2
        /\ CreatedAt(tasks, fetches[f].values[i].items[1])
              > CreatedAt(tasks, fetches[f].values[i].items[2])

(***************************************************************************)
(* Properties of the complexity middleware.                                *)
(***************************************************************************)
\* C26: for one info.context the middleware runs calculate_complexity at
\* most once, and once a resolve call has been made the context is marked
\* as analysed.
C26_AnalysisRunsOncePerRequest ==
    /\ info_context.analyses <= 1
    /\ info_context.resolves >= 1 => info_context.has_complexity_analyzed

(***************************************************************************)
(* Properties of the query responses.                                      *)
(***************************************************************************)
\* The organization that owns the object of a node.
OwnerOf(n) ==
    CASE n.kind = "project" ->
             (CHOOSE q \in projects : q.id = n.id).organization_id
      [] n.kind = "task" ->
             ProjectOf(CHOOSE t \in tasks : t.id = n.id).organization_id
      [] n.kind = "comment" ->
             ProjectOf(TaskOf(CHOOSE c \in comments : c.id = n.id)).organization_id

\* C29: every project, task and comment of a response, nested ones
\* delivered by the loaders included, belongs to the organization whose
\* slug was given to the root field it descends from.
C29_ResponseObjectsBelongToTheRequestedOrganization ==
    \A n \in response :
        n.kind # "promise" => Organization_slug(OwnerOf(n)) = n.slug

\* A response holds a comment delivered by comments_by_task_loader for a
\* task of the response while another organization has comments too.
C29_Witness ==
    \E n \in response :
        /\ n.kind = "comment"
        /\ dataloaders[n.request] # NoAttr
        /\ \E b \in DOMAIN loaders[dataloaders[n.request]]["comments_by_task_loader"].batches :
               loaders[dataloaders[n.request]]["comments_by_task_loader"].batches[b].outcome = "returned"
        /\ \E c \in comments :
               Organization_slug(ProjectOf(TaskOf(c)).organization_id) # n.slug

(***************************************************************************)
(* Properties of the statistics cache keys.                                *)
(***************************************************************************)
\* The keys the signal handlers delete for some project or organization.
InvalidatedKeys ==
    { project_stats_key(str_of(q.id), Organization_slug(q.organization_id)) :
          q \in projects }
    \cup { org_stats_key(Organization_slug(o.id)) : o \in organizations }

\* C30: every key under which the cache holds a statistics entry is a key
\* that the signal handlers delete for the project or organization the
\* entry belongs to, whatever the spelling of the projectId argument.
C30_StoredKeysAreInvalidatedKeys ==
    \A key \in CacheKeys : cache[key].present => key \in InvalidatedKeys

(***************************************************************************)
(* Properties of a statistics query racing with a task mutation.           *)
(***************************************************************************)
\* C28: once the statistics query and the task mutation have both
\* returned, every project statistics entry in the cache equals the
\* statistics of the project's present task set.
C28_NoStaleEntryAfterQueryAndMutation ==
    (inflight.pc \in { "returned", "raised" } /\ payload.n > 0)
    => \A q \in projects :
          LET key == project_stats_key(str_of(q.id),
                                       Organization_slug(q.organization_id))
          IN  cache[key].present => cache[key] = ProjectStatistics(q.id)

====
